---------------------------- MODULE Spec2Model ----------------------------
(***************************************************************************)
(* A model of the eSubpoena Tolls Tool (src/esubpoena_tolls_tool_simple.py):*)
(* phone-number normalisation, the CallRecord constructor, XMLParser's      *)
(* parse_file, the batch worker _process_files_thread, Analytics,           *)
(* ExcelExporter.export_data and the session: the callbacks of the          *)
(* application object over overlapping ingestion runs.                      *)
(*                                                                          *)
(* Text is a sequence of characters, each character a one-character string; *)
(* a character outside ASCII is written by its code point ("U+0663").       *)
(* Python's None and a missing XML child are the one-element tuples None    *)
(* and Absent, which no text equals.                                        *)
(***************************************************************************)
EXTENDS Integers, Sequences, FiniteSets, TLC

VARIABLES
    number,             \* SpecNormalize: the argument of _normalize_phone_number
    normalized_number,  \* SpecNormalize: its return value, NotYet before the call
    files,              \* the file system: path -> document, or Unreadable
    file_path,          \* SpecParse: the argument of XMLParser.parse_file
    parsed,             \* SpecParse: the outcome of parse_file, NotYet before the call
    file_paths,         \* _process_files_thread: its argument
    next_file,          \* _process_files_thread: the position of the for loop
    all_records,        \* _process_files_thread: the local all_records
    processed_files,    \* _process_files_thread: the local processed_files
    outcome,            \* the callback the worker posted with root.after
    pc,                 \* _process_files_thread: "loop", then "done"
    call_records,       \* SpecReport: the records analysed and exported
    hash_order,         \* SpecReport: the order in which this run of the
                        \* interpreter iterates over the set all_numbers
    snapshot,           \* SpecReport: the outcome of Analytics(records)
    wb,                 \* SpecReport: the outcome of export_data, the
                        \* workbook as it is saved
    again,              \* SpecReport: the outcome of a second
                        \* Analytics(records) over the same list
    session,            \* SpecSession: the attributes of the application
                        \* object (self) and the state of its widgets
    runs,               \* SpecSession: the ingestion runs started so far
    after_queue,        \* SpecSession: the callbacks posted with
                        \* root.after(0, ...) and not yet run
    exported            \* SpecSession: the arguments of the last call of
                        \* ExcelExporter.export_data

vars == <<number, normalized_number, files, file_path, parsed, file_paths,
          next_file, all_records, processed_files, outcome, pc,
          call_records, hash_order, snapshot, wb, again,
          session, runs, after_queue, exported>>

normalizeVars == <<number, normalized_number>>
parseVars == <<file_path, parsed>>
ingestVars == <<file_paths, next_file, all_records, processed_files, outcome, pc>>
reportVars == <<call_records, hash_order, snapshot, wb, again>>
sessionVars == <<session, runs, after_queue, exported>>

(***************************** values ***************************************)

None == <<"<None>">>
Absent == <<"<absent>">>
NotYet == <<"<not yet>">>

AsciiDigits == {"0", "1", "2", "3", "4", "5", "6", "7", "8", "9"}

\* Decimal digits outside ASCII: ARABIC-INDIC DIGIT THREE, FULLWIDTH DIGIT FIVE.
NonAsciiDigits == {"U+0663", "U+FF15"}

\* The class \d of a Python 3 str pattern: every Unicode decimal digit.
IsDecimalDigit(c) == c \in AsciiDigits \cup NonAsciiDigits

\* str(x): None prints as the text "None", a text is itself.
Str(x) == IF x = None THEN <<"N", "o", "n", "e">> ELSE x

\* re.sub(r'[^\d]', '', s): every character outside \d is removed.
digits_only(s) == SelectSeq(s, IsDecimalDigit)

\* s[-n:] for n > 0.
LastChars(s, n) == IF Len(s) <= n THEN s ELSE SubSeq(s, Len(s) - n + 1, Len(s))

Zeros(n) == [i \in 1..n |-> "0"]

\* str.zfill(width): zeros go after a leading sign.
zfill(s, width) ==
    IF Len(s) >= width THEN s
    ELSE IF Len(s) > 0 /\ s[1] \in {"+", "-"}
         THEN <<s[1]>> \o Zeros(width - Len(s)) \o Tail(s)
         ELSE Zeros(width - Len(s)) \o s

(*********************** CallRecord._normalize_phone_number *****************)

\* Plausible bug: the "longer than 10" branch is missing.
normalize_no_truncation(n) ==
    LET d == digits_only(Str(n)) IN
    IF Len(d) = 10 THEN d
    ELSE IF Len(d) = 11 /\ d[1] = "1" THEN Tail(d)
    ELSE zfill(d, 10)

\* Plausible bug: the first 10 digits are kept instead of the last 10.
normalize_keep_first(n) ==
    LET d == digits_only(Str(n)) IN
    IF Len(d) = 10 THEN d
    ELSE IF Len(d) = 11 /\ d[1] = "1" THEN Tail(d)
    ELSE IF Len(d) > 10 THEN SubSeq(d, 1, 10)
    ELSE zfill(d, 10)

_normalize_phone_number(n) ==
    LET d == digits_only(Str(n)) IN
    IF Len(d) = 10 THEN d
    ELSE IF Len(d) = 11 /\ d[1] = "1" THEN Tail(d)
    ELSE IF Len(d) > 10 THEN LastChars(d, 10)
    ELSE zfill(d, 10)

(***************************** exceptions ***********************************)

\* The outcome of a call: the value returned, or the class of the exception
\* raised.
Return(v) == [exc |-> "", val |-> v]
Raise(e) == [exc |-> e, val |-> None]

\* A call that has not been made yet.
Pending == [exc |-> "<pending>", val |-> None]

(******************************** int(text) *********************************)

DigitChars == <<"0", "1", "2", "3", "4", "5", "6", "7", "8", "9">>

\* The decimal value of a character of the class \d.
DigitValue(c) ==
    IF c = "U+0663" THEN 3
    ELSE IF c = "U+FF15" THEN 5
    ELSE (CHOOSE i \in 1..10 : DigitChars[i] = c) - 1

IsSpace(c) == c \in {" ", "\t", "\n"}

RECURSIVE lstrip(_)
lstrip(s) == IF s # <<>> /\ IsSpace(s[1]) THEN lstrip(Tail(s)) ELSE s

RECURSIVE rstrip(_)
rstrip(s) ==
    IF s # <<>> /\ IsSpace(s[Len(s)]) THEN rstrip(SubSeq(s, 1, Len(s) - 1)) ELSE s

RECURSIVE DecimalValue(_)
DecimalValue(s) ==
    IF s = <<>> THEN 0
    ELSE 10 * DecimalValue(SubSeq(s, 1, Len(s) - 1)) + DigitValue(s[Len(s)])

\* int(x) of an element's text: TypeError for None; for a text, surrounding
\* whitespace is dropped, one sign may lead, and digits follow, with single
\* underscores between them; anything else is a ValueError.
int(x) ==
    IF x = None THEN Raise("TypeError")
    ELSE
        LET t == rstrip(lstrip(x))
            signed == t # <<>> /\ t[1] \in {"+", "-"}
            body == IF signed THEN Tail(t) ELSE t
            wellFormed ==
                /\ body # <<>>
                /\ \A i \in 1..Len(body) : IsDecimalDigit(body[i]) \/ body[i] = "_"
                /\ body[1] # "_" /\ body[Len(body)] # "_"
                /\ \A i \in 1..(Len(body) - 1) : ~(body[i] = "_" /\ body[i + 1] = "_")
            magnitude == DecimalValue(SelectSeq(body, IsDecimalDigit))
        IN  IF ~wellFormed THEN Raise("ValueError")
            ELSE IF signed /\ t[1] = "-" THEN Return(0 - magnitude)
            ELSE Return(magnitude)

(************************ datetime.fromisoformat ****************************)

\* s.replace('Z', '+00:00'): every 'Z' of the text is replaced.
RECURSIVE replace_Z(_)
replace_Z(s) ==
    IF s = <<>> THEN <<>>
    ELSE (IF s[1] = "Z" THEN <<"+", "0", "0", ":", "0", "0">> ELSE <<s[1]>>)
         \o replace_Z(Tail(s))

AllAsciiDigits(s, from, to) == \A i \in from..to : s[i] \in AsciiDigits

Number(s, from, to) == DecimalValue(SubSeq(s, from, to))

IsLeap(y) == (y % 4 = 0 /\ y % 100 # 0) \/ y % 400 = 0

DaysInMonth(y, m) ==
    IF m = 2 THEN (IF IsLeap(y) THEN 29 ELSE 28)
    ELSE IF m \in {4, 6, 9, 11} THEN 30 ELSE 31

\* datetime.fromisoformat(s) for the forms every Python 3 release reads the
\* same way: YYYY-MM-DD, YYYY-MM-DD?HH:MM:SS and YYYY-MM-DD?HH:MM:SS+HH:MM
\* (any separator, either sign); every other text is a ValueError.  The
\* value is a datetime whose tzinfo is <<>> (None) or <<offset in minutes>>.
fromisoformat(s) ==
    LET n == Len(s)
        dateShape ==
            /\ n >= 10
            /\ AllAsciiDigits(s, 1, 4) /\ s[5] = "-"
            /\ AllAsciiDigits(s, 6, 7) /\ s[8] = "-"
            /\ AllAsciiDigits(s, 9, 10)
        timeShape ==
            /\ n >= 19
            /\ AllAsciiDigits(s, 12, 13) /\ s[14] = ":"
            /\ AllAsciiDigits(s, 15, 16) /\ s[17] = ":"
            /\ AllAsciiDigits(s, 18, 19)
        zoneShape ==
            /\ n = 25
            /\ s[20] \in {"+", "-"}
            /\ AllAsciiDigits(s, 21, 22) /\ s[23] = ":"
            /\ AllAsciiDigits(s, 24, 25)
        shape == dateShape /\ (n = 10 \/ (timeShape /\ (n = 19 \/ zoneShape)))
        year == Number(s, 1, 4)
        month == Number(s, 6, 7)
        day == Number(s, 9, 10)
        hour == IF n >= 19 THEN Number(s, 12, 13) ELSE 0
        minute == IF n >= 19 THEN Number(s, 15, 16) ELSE 0
        second == IF n >= 19 THEN Number(s, 18, 19) ELSE 0
        zoneHour == Number(s, 21, 22)
        zoneMinute == Number(s, 24, 25)
        offset == (IF s[20] = "-" THEN -1 ELSE 1) * (60 * zoneHour + zoneMinute)
        inRange ==
            /\ year >= 1 /\ month \in 1..12 /\ day \in 1..DaysInMonth(year, month)
            /\ hour \in 0..23 /\ minute \in 0..59 /\ second \in 0..59
            /\ n = 25 => (zoneHour \in 0..23 /\ zoneMinute \in 0..59)
    IN  IF ~shape THEN Raise("ValueError")
        ELSE IF ~inRange THEN Raise("ValueError")
        ELSE Return([year |-> year, month |-> month, day |-> day, hour |-> hour,
                     minute |-> minute, second |-> second,
                     tzinfo |-> IF n = 25 THEN <<offset>> ELSE <<>>])

\* dt.replace(tzinfo=None): the offset is dropped, every other field is kept.
replace_tzinfo_None(dt) == [dt EXCEPT !.tzinfo = <<>>]

(******************************* strftime ***********************************)

Format2(n) == <<DigitChars[((n \div 10) % 10) + 1], DigitChars[(n % 10) + 1]>>

\* %Y of a year of four digits.
Format4(n) == Format2(n \div 100) \o Format2(n % 100)

\* strftime('%Y-%m-%d')
strftime_date(dt) ==
    Format4(dt.year) \o <<"-">> \o Format2(dt.month) \o <<"-">> \o Format2(dt.day)

\* strftime('%H:%M:%S')
strftime_time(dt) ==
    Format2(dt.hour) \o <<":">> \o Format2(dt.minute) \o <<":">> \o Format2(dt.second)

RECURSIVE DaysBeforeMonth(_, _)
DaysBeforeMonth(y, m) ==
    IF m = 1 THEN 0 ELSE DaysBeforeMonth(y, m - 1) + DaysInMonth(y, m - 1)

\* date.toordinal(): 1 for 0001-01-01.
toordinal(dt) ==
    LET y == dt.year - 1
    IN  (y * 365) + (y \div 4) - (y \div 100) + (y \div 400)
        + DaysBeforeMonth(dt.year, dt.month) + dt.day

DayNames ==
    <<"Monday", "Tuesday", "Wednesday", "Thursday", "Friday", "Saturday", "Sunday">>

\* strftime('%A'); 0001-01-01 is a Monday.
strftime_weekday(dt) == DayNames[((toordinal(dt) + 6) % 7) + 1]

(************************** CallRecord.__init__ *****************************)

\* .replace(tzinfo=None) on what fromisoformat returned, if it returned.
naive(dt) == IF dt.exc # "" THEN dt ELSE Return(replace_tzinfo_None(dt.val))

\* start_time.replace('Z', '+00:00') raises AttributeError on None; the text
\* is then read by fromisoformat and its offset dropped.
parse_timestamp(text) ==
    IF text = None THEN Raise("AttributeError")
    ELSE naive(fromisoformat(replace_Z(text)))

\* The attributes of a CallRecord, st and et being the outcomes of reading
\* start_time and end_time: the exception of the first timestamp that cannot
\* be read, or the record.  duration_minutes is the exact quotient
\* <<numerator, denominator>> of length_of_call / 60.0.
attributes(direction, remote_number, st, et, length_of_call, target_number, source_file) ==
    IF st.exc # "" THEN st
    ELSE IF et.exc # "" THEN et
    ELSE Return(
        [direction |-> direction,
         remote_number |-> remote_number,
         normalized_number |-> _normalize_phone_number(remote_number),
         target_number |-> IF target_number # <<>> /\ target_number # None
                           THEN _normalize_phone_number(target_number)
                           ELSE <<>>,
         source_file |-> source_file,
         start_time |-> st.val,
         end_time |-> et.val,
         length_of_call |-> length_of_call,
         duration_minutes |-> <<length_of_call, 60>>,
         date |-> strftime_date(st.val),
         time |-> strftime_time(st.val),
         date_time |-> strftime_date(st.val) \o <<" ">> \o strftime_time(st.val),
         day_of_week |-> strftime_weekday(st.val)])

\* CallRecord(...): the record built, or the exception raised.
CallRecord(direction, remote_number, start_time, end_time, length_of_call, target_number, source_file) ==
    attributes(direction, remote_number, parse_timestamp(start_time),
               parse_timestamp(end_time), length_of_call, target_number,
               source_file)

(************************* XMLParser.parse_file *****************************)

\* The content of a path ET.parse cannot read as well-formed XML (a missing,
\* truncated or corrupt file).
Unreadable == [wellFormed |-> FALSE, targetValue |-> Absent, results |-> <<>>]

\* os.path.basename(path): what follows the last '/'.
RECURSIVE basename(_)
basename(path) ==
    IF path = <<>> \/ path[Len(path)] = "/" THEN <<>>
    ELSE basename(SubSeq(path, 1, Len(path) - 1)) \o <<path[Len(path)]>>

\* result.find(tag).text: AttributeError when the child is missing, None
\* when it has no text.
find_text(child) == IF child = Absent THEN Raise("AttributeError") ELSE Return(child)

\* The record of one element once its five texts are fetched and its
\* lengthOfCall converted (length being the outcome of int).
construct(direction, remote_number, start_time, end_time, length, target_number, source_file) ==
    IF length.exc # "" THEN length
    ELSE CallRecord(direction, remote_number, start_time, end_time, length.val,
                    target_number, source_file)

\* The try block of the loop for one results element, source_file being what
\* the record is stamped with: the record built, or the first exception.
try_block(result, target_number, source_file) ==
    LET direction == find_text(result.messageDirection)
        remote_number == find_text(result.remoteNumber)
        start_time == find_text(result.startTime)
        end_time == find_text(result.endTime)
        length_text == find_text(result.lengthOfCall)
    IN  IF direction.exc # "" THEN direction
        ELSE IF remote_number.exc # "" THEN remote_number
        ELSE IF start_time.exc # "" THEN start_time
        ELSE IF end_time.exc # "" THEN end_time
        ELSE IF length_text.exc # "" THEN length_text
        ELSE construct(direction.val, remote_number.val, start_time.val,
                       end_time.val, int(length_text.val), target_number,
                       source_file)

\* Plausible bug: the record is stamped with the whole path.
process_result_full_path(result, target_number, path) ==
    try_block(result, target_number, path)

\* Plausible bug: source_file is left at its default "".
process_result_unstamped(result, target_number, path) ==
    try_block(result, target_number, <<>>)

\* One results element of the file at path: the record is stamped with
\* os.path.basename(file_path).
process_result(result, target_number, path) ==
    try_block(result, target_number, basename(path))

\* The exceptions the loop's except clause catches.
SkippedExceptions == {"AttributeError", "ValueError"}

\* for result in results: a record is appended, an AttributeError or
\* ValueError skips the element, any other exception leaves the loop.
\* after_result continues the loop with the outcome r of one element.
RECURSIVE parse_results(_, _, _, _)
RECURSIVE after_result(_, _, _, _, _)
after_result(r, rest, target_number, path, records) ==
    IF r.exc = "" THEN parse_results(rest, target_number, path, Append(records, r.val))
    ELSE IF r.exc \in SkippedExceptions
    THEN parse_results(rest, target_number, path, records)
    ELSE r

parse_results(results, target_number, path, records) ==
    IF results = <<>> THEN Return(records)
    ELSE after_result(process_result(Head(results), target_number, path),
                      Tail(results), target_number, path, records)

\* root.find('.//targetValue') and its text: "" unless the element is there
\* and has text.
target_number_of(doc) ==
    IF doc.targetValue # Absent /\ doc.targetValue # None
    THEN doc.targetValue
    ELSE <<>>

\* except Exception as e: raise Exception(f"Failed to parse XML file: {e}")
reraise(r) == IF r.exc = "" THEN r ELSE Raise("Exception")

\* XMLParser.parse_file(file_path), here path, on the file system fs: the
\* records, or Exception("Failed to parse XML file: ...") for whatever was
\* raised inside.
parse_file(fs, path) ==
    IF ~fs[path].wellFormed THEN Raise("Exception")
    ELSE reraise(parse_results(fs[path].results, target_number_of(fs[path]),
                               path, <<>>))

(******************************* Analytics **********************************)

UpperCase ==
    <<"A", "B", "C", "D", "E", "F", "G", "H", "I", "J", "K", "L", "M", "N", "O",
      "P", "Q", "R", "S", "T", "U", "V", "W", "X", "Y", "Z">>
LowerCase ==
    <<"a", "b", "c", "d", "e", "f", "g", "h", "i", "j", "k", "l", "m", "n", "o",
      "p", "q", "r", "s", "t", "u", "v", "w", "x", "y", "z">>

\* The characters of the model in the order of their code points.
CodePointOrder ==
    <<" ", "'", "(", ")", "+", ",", "-", ".", "/", "0", "1", "2", "3", "4", "5",
      "6", "7", "8", "9", ":", "=">> \o UpperCase \o LowerCase
        \o <<"U+0663", "U+FF15">>

ord(c) == CHOOSE k \in 1..Len(CodePointOrder) : CodePointOrder[k] = c

\* a < b for two str: at the first position where they differ, a has ended
\* or has the smaller character.
text_less(a, b) ==
    \E k \in 1..(Len(b)) :
        /\ k <= Len(a) + 1
        /\ \A j \in 1..(k - 1) : a[j] = b[j]
        /\ k = Len(a) + 1 \/ ord(a[k]) < ord(b[k])

\* str.lower(), character by character.
lower(s) ==
    [i \in 1..Len(s) |->
        IF \E k \in 1..26 : UpperCase[k] = s[i]
        THEN LowerCase[CHOOSE k \in 1..26 : UpperCase[k] = s[i]]
        ELSE s[i]]

\* Analytics(records) for an empty list: every attribute at its zero.
empty_snapshot ==
    [total_calls |-> 0, incoming_calls |-> 0, outgoing_calls |-> 0,
     total_duration_minutes |-> <<0, 1>>, average_call_duration |-> <<0, 1>>,
     unique_numbers |-> 0, most_frequent_numbers |-> <<>>,
     calls_by_day |-> <<>>, calls_by_hour |-> <<>>,
     longest_call |-> <<>>, shortest_call |-> <<>>,
     target_numbers |-> {}, common_contacts |-> <<>>,
     files_processed |-> {}, unset |-> {}]

\* The elements of a set of integers, in increasing order.
Ascending(S) ==
    [k \in 1..Cardinality(S) |->
        CHOOSE i \in S : Cardinality({j \in S : j < i}) = k - 1]

\* The keys of a dict filled from the sequence keys, in the order a dict
\* keeps them: each key once, where it was first encountered.
first_encountered(keys) ==
    LET firsts == {i \in 1..Len(keys) : \A j \in 1..(i - 1) : keys[j] # keys[i]}
        at == Ascending(firsts)
    IN  [k \in 1..Len(at) |-> keys[at[k]]]

\* d[key] = d.get(key, 0) + 1 over the sequence keys: the items of the
\* dict, <<key, count>>, in insertion order.
tally(keys) ==
    LET ks == first_encountered(keys)
    IN  [k \in 1..Len(ks) |->
            <<ks[k], Cardinality({i \in 1..Len(keys) : keys[i] = ks[k]})>>]

\* sorted(items, key=..., reverse=True) and list.sort(key=...,
\* reverse=True), keys[i] being the key of items[i]: by decreasing key,
\* items of equal key staying in the order they had (the sort is stable,
\* reversed or not).
sorted_reverse(items, keys) ==
    LET rank(i) ==
            Cardinality({j \in 1..Len(items) :
                            \/ keys[j] > keys[i]
                            \/ keys[j] = keys[i] /\ j < i})
    IN  [k \in 1..Len(items) |->
            items[CHOOSE i \in 1..Len(items) : rank(i) = k - 1]]

\* s[:n]
first(s, n) == IF Len(s) <= n THEN s ELSE SubSeq(s, 1, n)

\* Plausible bug: sorted ascending and then reversed, which turns the order
\* of the numbers of equal count around.
most_frequent_reversed(numbers) ==
    LET items == tally(numbers)
        rank(i) ==
            Cardinality({j \in 1..Len(items) :
                            \/ items[j][2] > items[i][2]
                            \/ items[j][2] = items[i][2] /\ j > i})
    IN  first([k \in 1..Len(items) |->
                  items[CHOOSE i \in 1..Len(items) : rank(i) = k - 1]], 10)

\* most_frequent_numbers, from the normalized numbers of the records in
\* sequence order.
most_frequent_numbers(numbers) ==
    first(sorted_reverse(tally(numbers),
                         [i \in 1..Len(tally(numbers)) |-> tally(numbers)[i][2]]),
          10)

\* max(records, key=...length_of_call): the first record of greatest
\* length, as a one-element tuple.
longest_call(records) ==
    LET i == CHOOSE i \in 1..Len(records) :
                /\ \A j \in 1..Len(records) :
                      records[j].length_of_call <= records[i].length_of_call
                /\ \A j \in 1..(i - 1) :
                      records[j].length_of_call < records[i].length_of_call
    IN  <<records[i]>>

\* Plausible bug: the shortest call is taken over all the records.
shortest_call_any(records) ==
    LET i == CHOOSE i \in 1..Len(records) :
                /\ \A j \in 1..Len(records) :
                      records[j].length_of_call >= records[i].length_of_call
                /\ \A j \in 1..(i - 1) :
                      records[j].length_of_call > records[i].length_of_call
    IN  <<records[i]>>

\* min((r for r in records if r.length_of_call > 0), key=..., default=None):
\* the first record of least positive length as a one-element tuple, the
\* empty tuple for None.
shortest_call(records) ==
    LET positive == SelectSeq(records, LAMBDA r : r.length_of_call > 0)
    IN  IF positive = <<>> THEN <<>>
        ELSE LET i == CHOOSE i \in 1..Len(positive) :
                         /\ \A j \in 1..Len(positive) :
                               positive[j].length_of_call
                                   >= positive[i].length_of_call
                         /\ \A j \in 1..(i - 1) :
                               positive[j].length_of_call
                                   > positive[i].length_of_call
             IN  <<positive[i]>>

\* target_groups: the targets in the order the dict keeps them, and the set
\* of normalized numbers under a target.
target_groups_keys(records) ==
    first_encountered(
        [i \in 1..Len(SelectSeq(records, LAMBDA r : r.target_number # <<>>)) |->
            SelectSeq(records, LAMBDA r : r.target_number # <<>>)[i].target_number])

target_group(records, target) ==
    {records[i].normalized_number :
        i \in {j \in 1..Len(records) : records[j].target_number = target}}

\* all_numbers: the numbers of all the target groups.
all_numbers(records) ==
    {records[i].normalized_number :
        i \in {j \in 1..Len(records) : records[j].target_number # <<>>}}

\* The orders in which `for number in all_numbers` can visit a set: strings
\* hash differently from one run of the interpreter to the next.
IterationOrders(S) ==
    {order \in [1..Cardinality(S) -> S] :
        \A i, j \in 1..Cardinality(S) : order[i] = order[j] => i = j}

\* The entry appended for a number visited by the loop.
contact(n, targets, records) ==
    LET target_numbers_with_contact ==
            SelectSeq(targets, LAMBDA t : n \in target_group(records, t))
    IN  [number |-> n,
         target_numbers |-> target_numbers_with_contact,
         count |-> Len(target_numbers_with_contact)]

\* The entries the loop appends, in the order in which it visits the
\* numbers.
appended(records, order, targets) ==
    SelectSeq([k \in 1..Len(order) |-> contact(order[k], targets, records)],
              LAMBDA c : c.count > 1)

\* Plausible bug: the contacts are left in the order the loop found them.
common_contacts_unsorted(records, order) ==
    LET targets == target_groups_keys(records)
    IN  IF Len(targets) > 1
        THEN [assigned |-> TRUE, list |-> appended(records, order, targets)]
        ELSE [assigned |-> FALSE, list |-> <<>>]

\* self.common_contacts.sort(key=lambda x: x['count'], reverse=True)
sort_by_count(contacts) ==
    sorted_reverse(contacts, [i \in 1..Len(contacts) |-> contacts[i].count])

\* _find_common_contacts, order being the order in which the loop visits
\* all_numbers: the list assigned to self.common_contacts, or no assignment
\* at all when there are fewer than two target groups.
_find_common_contacts(records, order) ==
    LET targets == target_groups_keys(records)
    IN  IF Len(targets) > 1
        THEN [assigned |-> TRUE,
              list |-> sort_by_count(appended(records, order, targets))]
        ELSE [assigned |-> FALSE, list |-> <<>>]

RECURSIVE total_length(_)
\* The sum of length_of_call over the records.
total_length(records) ==
    IF records = <<>> THEN 0
    ELSE Head(records).length_of_call + total_length(Tail(records))

\* The attributes _calculate_analytics assigns for a non-empty list, common
\* being what _find_common_contacts did.  The durations are the exact
\* quotients <<numerator, denominator>>; longest_call and shortest_call are
\* one-element tuples, or empty for None; the dicts are the sequences of
\* their items in insertion order; unset names the attributes the code
\* never assigned.
calculated(records, incoming, common) ==
    [total_calls |-> Len(records),
     incoming_calls |-> incoming,
     outgoing_calls |-> Len(records) - incoming,
     total_duration_minutes |-> <<total_length(records), 60>>,
     average_call_duration |-> <<total_length(records), 60 * Len(records)>>,
     unique_numbers |->
         Cardinality({records[i].normalized_number : i \in 1..Len(records)}),
     most_frequent_numbers |->
         most_frequent_numbers([i \in 1..Len(records) |->
                                   records[i].normalized_number]),
     calls_by_day |-> tally([i \in 1..Len(records) |-> records[i].date]),
     calls_by_hour |->
         tally([i \in 1..Len(records) |-> records[i].start_time.hour]),
     longest_call |-> longest_call(records),
     shortest_call |-> shortest_call(records),
     target_numbers |->
         {records[i].target_number : i \in 1..Len(records)} \ {<<>>},
     common_contacts |-> common.list,
     files_processed |->
         {records[i].source_file : i \in 1..Len(records)} \ {<<>>},
     unset |-> IF common.assigned THEN {} ELSE {"common_contacts"}]

\* Analytics(records), order being the order in which this run iterates
\* over all_numbers.  r.direction.lower() raises AttributeError for a record
\* whose direction is None.
Analytics(records, order) ==
    IF records = <<>> THEN Return(empty_snapshot)
    ELSE IF \E i \in 1..Len(records) : records[i].direction = None
    THEN Raise("AttributeError")
    ELSE Return(calculated(
             records,
             Cardinality({i \in 1..Len(records) :
                             lower(records[i].direction)
                                 = <<"i", "n", "c", "o", "m", "i", "n", "g">>}),
             _find_common_contacts(records, order)))

\* Plausible bug: the longest call found with records.sort(key=..., reverse=True).
analyzed_records_sorted(records) ==
    sorted_reverse(records, [i \in 1..Len(records) |-> records[i].length_of_call])

\* The list records after Analytics(records): __init__ keeps a reference to
\* the caller's list and the methods only read it (len, iteration, max, min;
\* sorted() builds a new list; the one in-place sort is of the new list
\* common_contacts), so the list and its records are as they were.
analyzed_records(records) == records

\* analytics.common_contacts: AttributeError when it was never assigned.
common_contacts_of(analytics) ==
    IF "common_contacts" \in analytics.unset THEN Raise("AttributeError")
    ELSE Return(analytics.common_contacts)

(***************************** ExcelExporter ********************************)

\* The value of a cell: a str, an int, a float (the exact quotient
\* <<numerator, denominator>>), or None for a cell never written.
str_cell(text) == [t |-> "str", v |-> text]
int_cell(n) == [t |-> "int", v |-> <<n>>]
float_cell(q) == [t |-> "float", v |-> q]
none_cell == [t |-> "None", v |-> <<>>]

\* ws.cell(..., value=x) for an attribute that is a str or None.
text_cell(x) == IF x = None THEN none_cell ELSE str_cell(x)

RECURSIVE decimal(_)
\* The decimal digits of n >= 0.
decimal(n) ==
    IF n < 10 THEN <<DigitChars[n + 1]>>
    ELSE decimal(n \div 10) \o <<DigitChars[(n % 10) + 1]>>

\* str(n) and f"{n}" of an int.
str_int(n) == IF n < 0 THEN <<"-">> \o decimal(-n) ELSE decimal(n)

\* round(x) of a quotient n / d >= 0, a half going to the even neighbour.
round_half_even(n, d) ==
    LET q == n \div d
        r == n % d
    IN  IF 2 * r > d \/ (2 * r = d /\ q % 2 = 1) THEN q + 1 ELSE q

\* The text of a number of hundredths: 1234 is 12.34.
hundredths(h) == decimal(h \div 100) \o <<".">> \o Format2(h % 100)

\* f"{x:.2f}" of the float nearest to q[1] / q[2], as the text of the exact
\* quotient rounded to two decimals.
format_2f(q) ==
    IF q[1] < 0
    THEN <<"-">> \o hundredths(round_half_even(100 * (-q[1]), q[2]))
    ELSE hundredths(round_half_even(100 * q[1], q[2]))

\* sorted(items) of (str, int) pairs of distinct str: by the str.
sorted_items(items) ==
    [k \in 1..Len(items) |->
        items[CHOOSE i \in 1..Len(items) :
                 Cardinality({j \in 1..Len(items) :
                                 text_less(items[j][1], items[i][1])}) = k - 1]]

RECURSIVE join(_, _)
\* sep.join(texts)
join(sep, texts) ==
    IF texts = <<>> THEN <<>>
    ELSE IF Len(texts) = 1 THEN texts[1]
    ELSE texts[1] \o sep \o join(sep, Tail(texts))

\* The text of a day name.
DayText(day) ==
    CASE day = "Monday" -> <<"M", "o", "n", "d", "a", "y">>
      [] day = "Tuesday" -> <<"T", "u", "e", "s", "d", "a", "y">>
      [] day = "Wednesday" -> <<"W", "e", "d", "n", "e", "s", "d", "a", "y">>
      [] day = "Thursday" -> <<"T", "h", "u", "r", "s", "d", "a", "y">>
      [] day = "Friday" -> <<"F", "r", "i", "d", "a", "y">>
      [] day = "Saturday" -> <<"S", "a", "t", "u", "r", "d", "a", "y">>
      [] day = "Sunday" -> <<"S", "u", "n", "d", "a", "y">>
\* headers of _export_call_records
records_headers ==
    << <<"D", "i", "r", "e", "c", "t", "i", "o", "n">>,
       <<"T", "a", "r", "g", "e", "t", " ", "N", "u", "m", "b", "e", "r">>,
       <<"R", "e", "m", "o", "t", "e", " ", "N", "u", "m", "b", "e", "r">>,
       <<"N", "o", "r", "m", "a", "l", "i", "z", "e", "d", " ", "N", "u", "m", "b", "e", "r">>,
       <<"D", "a", "t", "e", " ", "&", " ", "T", "i", "m", "e">>,
       <<"E", "n", "d", " ", "T", "i", "m", "e">>,
       <<"D", "u", "r", "a", "t", "i", "o", "n", " ", "(", "s", "e", "c", ")">>,
       <<"D", "u", "r", "a", "t", "i", "o", "n", " ", "(", "m", "i", "n", ")">>,
       <<"D", "a", "y", " ", "o", "f", " ", "W", "e", "e", "k">>,
       <<"S", "o", "u", "r", "c", "e", " ", "F", "i", "l", "e">> >>

\* A row of cells holding these texts.
text_row(texts) == [k \in 1..Len(texts) |-> str_cell(texts[k])]

\* The ten cells written for a record.
record_row(record) ==
    << text_cell(record.direction),
       str_cell(record.target_number),
       text_cell(record.remote_number),
       str_cell(record.normalized_number),
       str_cell(record.date_time),
       str_cell(strftime_date(record.end_time) \o <<" ">>
                    \o strftime_time(record.end_time)),
       int_cell(record.length_of_call),
       float_cell(record.duration_minutes),
       str_cell(DayText(record.day_of_week)),
       str_cell(record.source_file) >>

\* Plausible bug: the rows are written from row 1 on, the first record over
\* the headers.
export_call_records_from_row_1(records) ==
    IF records = <<>> THEN <<text_row(records_headers)>>
    ELSE [i \in 1..Len(records) |-> record_row(records[i])]

\* _export_call_records: the rows of the sheet, the headers and then a row
\* for each record.
_export_call_records(records) ==
    <<text_row(records_headers)>>
        \o [i \in 1..Len(records) |-> record_row(records[i])]

\* The texts of _export_analytics.
TextMetric == <<"M", "e", "t", "r", "i", "c">>
TextValue == <<"V", "a", "l", "u", "e">>
TextTotalCalls == <<"T", "o", "t", "a", "l", " ", "C", "a", "l", "l", "s">>
TextIncomingCalls == <<"I", "n", "c", "o", "m", "i", "n", "g", " ", "C", "a", "l", "l", "s">>
TextOutgoingCalls == <<"O", "u", "t", "g", "o", "i", "n", "g", " ", "C", "a", "l", "l", "s">>
TextUniquePhoneNumbers == <<"U", "n", "i", "q", "u", "e", " ", "P", "h", "o", "n", "e", " ", "N", "u", "m", "b", "e", "r", "s">>
TextTotalDurationMinutes == <<"T", "o", "t", "a", "l", " ", "D", "u", "r", "a", "t", "i", "o", "n", " ", "(", "m", "i", "n", "u", "t", "e", "s", ")">>
TextAverageCallDurationMinutes == <<"A", "v", "e", "r", "a", "g", "e", " ", "C", "a", "l", "l", " ", "D", "u", "r", "a", "t", "i", "o", "n", " ", "(", "m", "i", "n", "u", "t", "e", "s", ")">>
TextMostFrequentNumbers == <<"M", "o", "s", "t", " ", "F", "r", "e", "q", "u", "e", "n", "t", " ", "N", "u", "m", "b", "e", "r", "s">>
TextCallCount == <<"C", "a", "l", "l", " ", "C", "o", "u", "n", "t">>
TextCallsByDay == <<"C", "a", "l", "l", "s", " ", "b", "y", " ", "D", "a", "y">>

\* A row of a (str, int) pair.
pair_row(item) == <<str_cell(item[1]), int_cell(item[2])>>

\* _export_analytics: the rows of the sheet; two rows are left empty before
\* each of the two tables.
_export_analytics(analytics) ==
    << text_row(<<TextMetric, TextValue>>),
       <<str_cell(TextTotalCalls), int_cell(analytics.total_calls)>>,
       <<str_cell(TextIncomingCalls), int_cell(analytics.incoming_calls)>>,
       <<str_cell(TextOutgoingCalls), int_cell(analytics.outgoing_calls)>>,
       <<str_cell(TextUniquePhoneNumbers), int_cell(analytics.unique_numbers)>>,
       <<str_cell(TextTotalDurationMinutes),
         str_cell(format_2f(analytics.total_duration_minutes))>>,
       <<str_cell(TextAverageCallDurationMinutes),
         str_cell(format_2f(analytics.average_call_duration))>>,
       <<none_cell, none_cell>>,
       <<none_cell, none_cell>>,
       text_row(<<TextMostFrequentNumbers, TextCallCount>>) >>
        \o [i \in 1..Len(analytics.most_frequent_numbers) |->
               pair_row(analytics.most_frequent_numbers[i])]
        \o << <<none_cell, none_cell>>, <<none_cell, none_cell>>,
              text_row(<<TextCallsByDay, TextCallCount>>) >>
        \o [i \in 1..Len(analytics.calls_by_day) |->
               pair_row(sorted_items(analytics.calls_by_day)[i])]

\* The texts of _export_summary_report.
BannerAnalysis == <<"=", "=", "=", " ", "T", "E", "L", "E", "C", "O", "M", "M", "U", "N", "I", "C", "A", "T", "I", "O", "N", " ", "D", "A", "T", "A", " ", "A", "N", "A", "L", "Y", "S", "I", "S", " ", "=", "=", "=">>
BannerMostFrequent == <<"=", "=", "=", " ", "M", "O", "S", "T", " ", "F", "R", "E", "Q", "U", "E", "N", "T", " ", "N", "U", "M", "B", "E", "R", "S", " ", "=", "=", "=">>
BannerCallsByDay == <<"=", "=", "=", " ", "C", "A", "L", "L", "S", " ", "B", "Y", " ", "D", "A", "Y", " ", "=", "=", "=">>
LineTotalCalls == <<"T", "o", "t", "a", "l", " ", "C", "a", "l", "l", "s", ":", " ">>
LineIncomingCalls == <<"I", "n", "c", "o", "m", "i", "n", "g", " ", "C", "a", "l", "l", "s", ":", " ">>
LineOutgoingCalls == <<"O", "u", "t", "g", "o", "i", "n", "g", " ", "C", "a", "l", "l", "s", ":", " ">>
LineUniquePhoneNumbers == <<"U", "n", "i", "q", "u", "e", " ", "P", "h", "o", "n", "e", " ", "N", "u", "m", "b", "e", "r", "s", ":", " ">>
LineTotalDuration == <<"T", "o", "t", "a", "l", " ", "D", "u", "r", "a", "t", "i", "o", "n", ":", " ">>
LineAverageCallDuration == <<"A", "v", "e", "r", "a", "g", "e", " ", "C", "a", "l", "l", " ", "D", "u", "r", "a", "t", "i", "o", "n", ":", " ">>
TextMinutes == <<" ", "m", "i", "n", "u", "t", "e", "s">>
TextCalls == <<" ", "c", "a", "l", "l", "s">>

\* f"{i}. {number} ({count} calls)"
frequent_line(i, item) ==
    str_int(i) \o <<".", " ">> \o item[1] \o <<" ", "(">> \o str_int(item[2])
        \o TextCalls \o <<")">>

\* f"{day}: {count} calls"
day_line(item) == item[1] \o <<":", " ">> \o str_int(item[2]) \o TextCalls

\* report_lines for these counts, the rest read from analytics.
report_lines(analytics, incoming_calls, outgoing_calls) ==
    << BannerAnalysis,
       <<>>,
       LineTotalCalls \o str_int(analytics.total_calls),
       LineIncomingCalls \o str_int(incoming_calls),
       LineOutgoingCalls \o str_int(outgoing_calls),
       LineUniquePhoneNumbers \o str_int(analytics.unique_numbers),
       LineTotalDuration \o format_2f(analytics.total_duration_minutes)
           \o TextMinutes,
       LineAverageCallDuration \o format_2f(analytics.average_call_duration)
           \o TextMinutes,
       <<>>,
       BannerMostFrequent >>
        \o [i \in 1..Len(analytics.most_frequent_numbers) |->
               frequent_line(i, analytics.most_frequent_numbers[i])]
        \o << <<>>, BannerCallsByDay >>
        \o [i \in 1..Len(analytics.calls_by_day) |->
               day_line(sorted_items(analytics.calls_by_day)[i])]

\* One line a row, in column 1.
line_rows(lines) == [i \in 1..Len(lines) |-> <<str_cell(lines[i])>>]

\* Plausible bug: the incoming and outgoing counts change places.
export_summary_report_swapped(analytics) ==
    line_rows(report_lines(analytics, analytics.outgoing_calls,
                           analytics.incoming_calls))

\* _export_summary_report: the rows of the sheet.
_export_summary_report(analytics) ==
    line_rows(report_lines(analytics, analytics.incoming_calls,
                           analytics.outgoing_calls))

\* The texts of _export_common_contacts.
NoCommonContacts == <<"N", "o", " ", "c", "o", "m", "m", "o", "n", " ", "c", "o", "n", "t", "a", "c", "t", "s", " ", "f", "o", "u", "n", "d", " ", "a", "c", "r", "o", "s", "s", " ", "t", "a", "r", "g", "e", "t", " ", "n", "u", "m", "b", "e", "r", "s">>
contacts_headers ==
    << <<"P", "h", "o", "n", "e", " ", "N", "u", "m", "b", "e", "r">>,
       <<"T", "a", "r", "g", "e", "t", " ", "N", "u", "m", "b", "e", "r", "s">>,
       <<"C", "o", "u", "n", "t">> >>

\* The rows of the sheet for the list common_contacts.
contacts_rows(common_contacts) ==
    IF common_contacts = <<>> THEN <<text_row(<<NoCommonContacts>>)>>
    ELSE <<text_row(contacts_headers)>>
             \o [i \in 1..Len(common_contacts) |->
                    << str_cell(common_contacts[i].number),
                       str_cell(join(<<",", " ">>,
                                     common_contacts[i].target_numbers)),
                       int_cell(common_contacts[i].count) >>]

\* _export_common_contacts, common being the outcome of reading
\* analytics.common_contacts: the rows of the sheet, or the AttributeError.
_export_common_contacts(common) ==
    IF common.exc # "" THEN common ELSE Return(contacts_rows(common.val))

\* cell.value.startswith('=') for a str
starts_with_equals(cell) ==
    cell.t = "str" /\ cell.v # <<>> /\ Head(cell.v) = "="

\* The clean-up loop for one cell: a str that starts with = gets an
\* apostrophe in front.
clean_cell(cell) ==
    IF starts_with_equals(cell) THEN str_cell(<<"'">> \o cell.v) ELSE cell

clean_rows(rows) ==
    [i \in 1..Len(rows) |-> [j \in 1..Len(rows[i]) |-> clean_cell(rows[i][j])]]

\* Plausible bug: the loop goes over the first worksheet only.
clean_up_first_sheet(sheets) ==
    [k \in 1..Len(sheets) |->
        IF k = 1 THEN [sheets[k] EXCEPT !.rows = clean_rows(sheets[k].rows)]
        ELSE sheets[k]]

\* The clean-up loop over wb.worksheets.
clean_up(sheets) ==
    [k \in 1..Len(sheets) |->
        [sheets[k] EXCEPT !.rows = clean_rows(sheets[k].rows)]]

\* The four worksheets as the exporters filled them, common being the
\* outcome of _export_common_contacts.
worksheets(records, analytics, common) ==
    << [title |-> "Call Records", rows |-> _export_call_records(records)],
       [title |-> "Analytics", rows |-> _export_analytics(analytics)],
       [title |-> "Summary Report", rows |-> _export_summary_report(analytics)],
       [title |-> "Common Contacts", rows |-> common.val] >>

\* export_data, common being the outcome of _export_common_contacts: the
\* worksheets of the workbook it saves, or the Exception it raises in place
\* of whatever went wrong.
save_or_raise(records, analytics, common) ==
    IF common.exc # "" THEN Raise("Exception")
    ELSE Return(clean_up(worksheets(records, analytics, common)))

export_data(records, analytics) ==
    save_or_raise(records, analytics,
                  _export_common_contacts(common_contacts_of(analytics)))

\* str(e) of the exceptions Analytics raises.
ExceptionText(e) ==
    IF e = "AttributeError" THEN "'NoneType' object has no attribute 'lower'"
    ELSE e

(******************* EsubpoenaTollsTool._process_files_thread ***************)

\* Plausible bug: a source that failed is listed as processed all the same.
merge_lists_failed(r, path, merged) ==
    [all_records |-> IF r.exc = "" THEN merged.all_records \o r.val
                     ELSE merged.all_records,
     processed_files |-> Append(merged.processed_files, path)]

\* Plausible bug: the records of a file are put in front of the merged ones.
merge_prepended(r, path, merged) ==
    IF r.exc = ""
    THEN [all_records |-> r.val \o merged.all_records,
          processed_files |-> Append(merged.processed_files, path)]
    ELSE merged

\* The try/except around parse_file, r being its outcome: a file that parses
\* extends the merged records and is listed as processed; a file that raises
\* is printed and passed over.
merge(r, path, merged) ==
    IF r.exc = ""
    THEN [all_records |-> merged.all_records \o r.val,
          processed_files |-> Append(merged.processed_files, path)]
    ELSE merged

\* One turn of the for loop.
process_one(fs, path, merged) == merge(parse_file(fs, path), path, merged)

Finished(records, analytics, paths) ==
    [callback |-> "_on_processing_finished", records |-> records,
     analytics |-> analytics, file_paths |-> paths, error_message |-> ""]

Error(message) ==
    [callback |-> "_on_processing_error", records |-> <<>>, analytics |-> None,
     file_paths |-> <<>>, error_message |-> message]

\* Plausible bug: the merged records are not tested for emptiness.
batch_outcome_unchecked(records, processed, order) ==
    LET analytics == Analytics(records, order)
    IN  IF analytics.exc = "" THEN Finished(records, analytics.val, processed)
        ELSE Error(ExceptionText(analytics.exc))

\* Plausible bug: Analytics is called outside a try block, so its exception
\* ends the thread and no callback is posted.
batch_outcome_escaping(records, processed, order) ==
    IF records # <<>>
    THEN LET analytics == Analytics(records, order)
         IN  IF analytics.exc = ""
             THEN Finished(records, analytics.val, processed)
             ELSE [callback |-> "", records |-> <<>>, analytics |-> None,
                   file_paths |-> <<>>, error_message |-> ""]
    ELSE Error("No valid records found in any files")

\* What follows the loop: the callback posted with root.after.
batch_outcome(records, processed, order) ==
    IF records # <<>>
    THEN LET analytics == Analytics(records, order)
         IN  IF analytics.exc = ""
             THEN Finished(records, analytics.val, processed)
             ELSE Error(ExceptionText(analytics.exc))
    ELSE Error("No valid records found in any files")

(******************************** The session ******************************)

\* The application object after __init__: no records, no analytics, no
\* target selected, the export and copy buttons disabled, the target
\* selector empty.  analytics is a one-element tuple, or empty for None.
constructed ==
    [all_records |-> <<>>, analytics |-> <<>>, current_target_number |-> None,
     filtered_records |-> <<>>, export_btn |-> "disabled",
     export_records_btn |-> "disabled", copy_btn |-> "disabled",
     target_values |-> <<>>, target_var |-> <<>>]

AllTargetNumbers ==
    <<"A", "l", "l", " ", "T", "a", "r", "g", "e", "t", " ", "N", "u", "m", "b", "e", "r", "s">>

\* sorted(list(S)) for a set of str.
sorted_list(S) ==
    [k \in 1..Cardinality(S) |->
        CHOOSE t \in S : Cardinality({u \in S : text_less(u, t)}) = k - 1]

\* Whether _update_analytics (and _update_summary) raises: they read
\* self.analytics.common_contacts, an AttributeError when Analytics never
\* assigned it.  Tk reports the exception of a callback and goes on; the
\* statements of the callback after the call are not executed.
update_analytics_raises(self) ==
    /\ self.analytics # <<>>
    /\ common_contacts_of(self.analytics[1]).exc # ""

_update_target_selector(self) ==
    IF self.analytics # <<>> /\ self.analytics[1].target_numbers # {}
    THEN [self EXCEPT
             !.target_values =
                 <<AllTargetNumbers>> \o sorted_list(self.analytics[1].target_numbers),
             !.target_var = AllTargetNumbers]
    ELSE [self EXCEPT !.target_values = <<>>, !.target_var = <<>>]

\* Plausible bug: the records of the batch are added to those loaded.
assign_batch_appending(self, records, analytics) ==
    [self EXCEPT !.all_records = self.all_records \o records,
                 !.analytics = <<analytics>>,
                 !.filtered_records = self.all_records \o records]

\* The three assignments at the head of _on_processing_finished.
assign_batch(self, records, analytics) ==
    [self EXCEPT !.all_records = records, !.analytics = <<analytics>>,
                 !.filtered_records = records]

\* self after _on_processing_finished(records, analytics, file_paths):
\* the three assignments, the table of records, then _update_analytics;
\* when that returns, the target selector is refilled and the export and
\* copy buttons are enabled.
_on_processing_finished(self, records, analytics) ==
    LET assigned == assign_batch(self, records, analytics)
    IN  IF update_analytics_raises(assigned) THEN assigned
        ELSE [_update_target_selector(assigned) EXCEPT
                 !.export_btn = "normal", !.export_records_btn = "normal",
                 !.copy_btn = "normal"]

\* self after _clear_all().
_clear_all(self) ==
    [_update_target_selector(
         [self EXCEPT !.all_records = <<>>, !.filtered_records = <<>>,
                      !.analytics = <<>>, !.current_target_number = None])
     EXCEPT !.export_btn = "disabled", !.export_records_btn = "disabled",
            !.copy_btn = "disabled"]

\* Plausible bug: a failed run resets the session.
on_processing_error_clearing(self, error_message) == _clear_all(self)

\* self after _on_processing_error(error_message): the status bar and a
\* message box, nothing of the session.
_on_processing_error(self, error_message) == self

\* self after _on_target_changed(), the combobox having put the selected
\* value in target_var.  The updates of the widgets that follow the
\* assignments change nothing of the session.
_on_target_changed(self) ==
    LET selected == self.target_var
    IN  IF selected # <<>> /\ selected # AllTargetNumbers
        THEN [self EXCEPT
                 !.current_target_number = selected,
                 !.filtered_records =
                     SelectSeq(self.all_records,
                               LAMBDA r : r.target_number = selected)]
        ELSE [self EXCEPT !.current_target_number = None,
                          !.filtered_records = self.all_records]

\* The call of ExcelExporter.export_data made by _export_to_excel, as a
\* one-element tuple, or none: the guard returns when there are no records
\* or no analytics, and the file dialog can be dismissed (chosen is whether
\* a path was given).  saved: the workbook was written.
export_call(records, analytics) ==
    <<[records |-> records, analytics |-> analytics,
       saved |-> export_data(records, analytics).exc = ""]>>

\* Plausible bug: the records shown are exported with the analytics of all.
export_to_excel_filtered(self, chosen) ==
    IF self.all_records = <<>> \/ self.analytics = <<>> \/ ~chosen THEN <<>>
    ELSE export_call(self.filtered_records, self.analytics[1])

_export_to_excel(self, chosen) ==
    IF self.all_records = <<>> \/ self.analytics = <<>> \/ ~chosen THEN <<>>
    ELSE export_call(self.all_records, self.analytics[1])

RECURSIVE process_all(_, _, _)
\* The for loop of _process_files_thread, from its first turn to its last.
process_all(fs, paths, merged) ==
    IF paths = <<>> THEN merged
    ELSE process_all(fs, Tail(paths), process_one(fs, Head(paths), merged))

(************************** SpecParse: the inputs ***************************)

MaxResults == 2

Incoming == <<"i", "n", "c", "o", "m", "i", "n", "g">>
Outgoing == <<"O", "u", "t", "g", "o", "i", "n", "g">>
Number911 == <<"9", "1", "1">>
NumberLong == <<"1", "-", "5", "5", "5", "-", "0", "1", "0", "-", "0", "1", "9", "9">>
TargetText == <<"(", "5", "5", "5", ")", " ", "0", "1", "0", "-", "0", "1", "0", "0">>
Time0830Z == <<"2", "0", "2", "4", "-", "0", "3", "-", "1", "0", "T", "0", "8", ":", "3", "0", ":", "0", "0", "Z">>
Time0831Z == <<"2", "0", "2", "4", "-", "0", "3", "-", "1", "0", "T", "0", "8", ":", "3", "1", ":", "0", "0", "Z">>
Time0830 == <<"2", "0", "2", "4", "-", "0", "3", "-", "1", "0", "T", "0", "8", ":", "3", "0", ":", "0", "0">>
\* The instant of Time0830Z, written with other offsets.
Time1030Plus2 == <<"2", "0", "2", "4", "-", "0", "3", "-", "1", "0", "T", "1", "0", ":", "3", "0", ":", "0", "0", "+", "0", "2", ":", "0", "0">>
Time2330Minus9 == <<"2", "0", "2", "4", "-", "0", "3", "-", "0", "9", "T", "2", "3", ":", "3", "0", ":", "0", "0", "-", "0", "9", ":", "0", "0">>
NotATime == <<"s", "o", "o", "n">>

GoodResult ==
    [messageDirection |-> Incoming, remoteNumber |-> Number911,
     startTime |-> Time0830Z, endTime |-> Time0831Z,
     lengthOfCall |-> <<"4", "5">>]

\* A results element: the well-formed GoodResult, or GoodResult with one
\* child missing, without text, or with another text.
ResultElems ==
    {GoodResult}
    \cup {[GoodResult EXCEPT !.messageDirection = v] : v \in {Absent, None, Outgoing}}
    \cup {[GoodResult EXCEPT !.remoteNumber = v] : v \in {Absent, None, NumberLong}}
    \cup {[GoodResult EXCEPT !.startTime = v] :
            v \in {Absent, None, NotATime, Time0830, Time1030Plus2, Time2330Minus9}}
    \cup {[GoodResult EXCEPT !.endTime = v] : v \in {Absent, None, NotATime}}
    \cup {[GoodResult EXCEPT !.lengthOfCall = v] :
            v \in {Absent, None, <<"a", "b", "c">>, <<"-", "5">>, <<"0">>}}

TargetValues == {Absent, None, TargetText}

Documents ==
    [wellFormed : {TRUE}, targetValue : TargetValues,
     results : UNION {[1..k -> ResultElems] : k \in 0..MaxResults}]

ParsePaths == {<<"a">>, <<"d", "/", "b">>}

(************************ SpecNormalize: the inputs *************************)

MaxHead == 1
MaxTail == 3

NumberAlphabet == {"1", "5", "+", "U+0663"}

Strings(alphabet, n) == UNION {[1..k -> alphabet] : k \in 0..n}

\* Digit runs that bring the free head and tail to 7..13 digits.
Stems ==
    { <<>>,
      <<"1", "2", "3", "4", "5", "6", "7", "8">>,
      <<"9", "8", "7", "6", "5", "4", "3", "2">>,
      <<"2", "3", "4", "5", "6", "7", "8", "9", "0">> }

RawNumbers ==
    { h \o s \o t : h \in Strings(NumberAlphabet, MaxHead), s \in Stems,
                    t \in Strings(NumberAlphabet, MaxTail) } \cup {None}

\* No callback has been posted.
NoOutcome ==
    [callback |-> "", records |-> <<>>, analytics |-> None, file_paths |-> <<>>,
     error_message |-> ""]

\* The variables of the other specifications, at rest.
SessionIdle ==
    /\ session = constructed /\ runs = <<>> /\ after_queue = <<>>
    /\ exported = <<>>
NormalizeIdle == number = <<>> /\ normalized_number = NotYet
ParseIdle == file_path = <<>> /\ parsed = Pending
IngestIdle ==
    /\ file_paths = <<>> /\ next_file = 1 /\ all_records = <<>>
    /\ processed_files = <<>> /\ outcome = NoOutcome /\ pc = "idle"
ReportIdle ==
    /\ call_records = <<>> /\ hash_order = <<>> /\ snapshot = Pending
    /\ wb = Pending /\ again = Pending

InitNormalize ==
    /\ number \in RawNumbers
    /\ normalized_number = NotYet
    /\ files = <<>>
    /\ ParseIdle
    /\ IngestIdle
    /\ ReportIdle
    /\ SessionIdle

Normalize ==
    /\ normalized_number = NotYet
    /\ normalized_number' = _normalize_phone_number(number)
    /\ UNCHANGED <<number, files, parseVars, ingestVars, reportVars, sessionVars>>

NextNormalize == Normalize

SpecNormalize == InitNormalize /\ [][NextNormalize]_vars

(******************************** SpecParse *********************************)

\* One call of XMLParser.parse_file on one file: unreadable, or a document
\* of up to MaxResults results elements.
InitParse ==
    /\ file_path \in ParsePaths
    /\ files \in [{file_path} -> Documents \cup {Unreadable}]
    /\ parsed = Pending
    /\ NormalizeIdle
    /\ IngestIdle
    /\ ReportIdle
    /\ SessionIdle

ParseFile ==
    /\ parsed = Pending
    /\ parsed' = parse_file(files, file_path)
    /\ UNCHANGED <<files, file_path, normalizeVars, ingestVars, reportVars,
                   sessionVars>>

NextParse == ParseFile

SpecParse == InitParse /\ [][NextParse]_vars

\* The document parse_file was called on (when the file is readable).
document == files[file_path]

WellFormed == files[file_path].wellFormed

\* parse_file has been called.
Parsed == parsed # Pending

(******************************** SpecIngest ********************************)

MaxFiles == 3

EmptyDocument == [wellFormed |-> TRUE, targetValue |-> Absent, results |-> <<>>]

GoodDocument ==
    [wellFormed |-> TRUE, targetValue |-> TargetText,
     results |-> <<GoodResult,
                   [GoodResult EXCEPT !.messageDirection = Outgoing,
                                      !.remoteNumber = NumberLong]>>]

\* A result without startTime, then a good one.
MixedDocument ==
    [wellFormed |-> TRUE, targetValue |-> Absent,
     results |-> <<[GoodResult EXCEPT !.startTime = Absent],
                   [GoodResult EXCEPT !.startTime = Time1030Plus2]>>]

\* A result whose messageDirection has no text.
NoDirectionDocument ==
    [wellFormed |-> TRUE, targetValue |-> None,
     results |-> <<[GoodResult EXCEPT !.messageDirection = None]>>]

\* A good result, then one whose lengthOfCall has no text.
EmptyLengthDocument ==
    [wellFormed |-> TRUE, targetValue |-> TargetText,
     results |-> <<GoodResult, [GoodResult EXCEPT !.lengthOfCall = None]>>]

IngestContents ==
    {Unreadable, EmptyDocument, GoodDocument, MixedDocument, NoDirectionDocument,
     EmptyLengthDocument}

Directory == <<"d", "/">>

IngestPaths == {<<"a">>, <<"d", "/", "b">>, Directory}

\* A directory cannot be read as a document.
FileSystems == {fs \in [IngestPaths -> IngestContents] : ~fs[Directory].wellFormed}

InitIngest ==
    /\ files \in FileSystems
    /\ file_paths \in UNION {[1..k -> IngestPaths] : k \in 0..MaxFiles}
    /\ next_file = 1
    /\ all_records = <<>>
    /\ processed_files = <<>>
    /\ outcome = NoOutcome
    /\ pc = "loop"
    /\ NormalizeIdle
    /\ ParseIdle
    /\ ReportIdle
    /\ SessionIdle

\* The worker's two lists after a turn of the loop.
Assign(merged) ==
    /\ all_records' = merged.all_records
    /\ processed_files' = merged.processed_files

\* for file_path in file_paths: one file.
ParseNextFile ==
    /\ pc = "loop"
    /\ next_file <= Len(file_paths)
    /\ Assign(process_one(files, file_paths[next_file],
                          [all_records |-> all_records,
                           processed_files |-> processed_files]))
    /\ next_file' = next_file + 1
    /\ UNCHANGED <<files, file_paths, outcome, pc, normalizeVars, parseVars,
                   reportVars, sessionVars>>

\* After the loop: Analytics and root.after(0, ...).
PostOutcome ==
    /\ pc = "loop"
    /\ next_file > Len(file_paths)
    /\ \E order \in IterationOrders(all_numbers(all_records)) :
          outcome' = batch_outcome(all_records, processed_files, order)
    /\ pc' = "done"
    /\ UNCHANGED <<files, file_paths, next_file, all_records, processed_files,
                   normalizeVars, parseVars, reportVars, sessionVars>>

NextIngest == ParseNextFile \/ PostOutcome

SpecIngest == InitIngest /\ [][NextIngest]_vars

\* A step of the worker thread as the scheduler sees it: a turn of the loop
\* or the end of the run.  Every step of NextIngest is one, and one is
\* possible exactly while the worker runs.
WorkerStep ==
    /\ pc = "loop"
    /\ pc' \in {"loop", "done"}
    /\ next_file' \in {next_file, next_file + 1}

\* The worker is a thread of its own (threading.Thread(...).start()): the
\* interpreter keeps scheduling it, and each turn of its loop ends, by a
\* return or by an exception, so a step it can take is taken.
SpecIngestFair == SpecIngest /\ WF_<<pc, next_file>>(WorkerStep)

(************************* SpecReport: the inputs ***************************)

MaxRecords == 3

UpperIncoming == <<"I", "N", "C", "O", "M", "I", "N", "G">>
FormulaText == <<"=", "1", "+", "1">>
FormulaNumber == <<"=", "9", "1", "1">>
FormulaName == <<"=", "b">>
NumberX == <<"5", "5", "5", "0", "1", "0", "0", "0", "0", "1">>
NumberY == <<"5", "5", "5", "0", "1", "0", "0", "0", "0", "2">>
NumberZ == <<"5", "5", "5", "0", "1", "0", "0", "0", "0", "3">>
Target1 == <<"5", "5", "5", "0", "1", "0", "0", "1", "0", "1">>
Target2 == <<"5", "5", "5", "0", "1", "0", "0", "1", "0", "2">>
Target3 == <<"5", "5", "5", "0", "1", "0", "0", "1", "0", "3">>

\* The CallRecord parse_file builds from these texts and this length.
Sample(direction, remote_number, start_time, length_of_call, target_number, source_file) ==
    CallRecord(direction, remote_number, start_time, Time0831Z,
               length_of_call, target_number, source_file).val

SampleRecords ==
    { Sample(Incoming, NumberX, Time0830Z, 45, Target1, <<"a">>),
      Sample(Outgoing, NumberY, Time0830Z, 0, Target1, <<"a">>),
      Sample(UpperIncoming, NumberY, Time2330Minus9, 60, Target2, <<"b">>),
      Sample(FormulaText, NumberX, Time0830Z, 45, Target2, <<"b">>),
      Sample(Incoming, NumberZ, Time1030Plus2, 60, <<>>, <<"c">>),
      Sample(None, NumberX, Time0830Z, 30, Target1, <<"a">>),
      Sample(Outgoing, FormulaNumber, Time2330Minus9, 0, Target2, FormulaName) }

\* Every list of up to MaxRecords sample records.
ShortLists == UNION {[1..k -> SampleRecords] : k \in 0..MaxRecords}

\* NumberX under three targets and NumberY under two of them: the five
\* records, or four of them, in every order.
CrossRecords ==
    << Sample(Incoming, NumberX, Time0830Z, 45, Target1, <<"a">>),
       Sample(Incoming, NumberX, Time0830Z, 45, Target2, <<"b">>),
       Sample(Incoming, NumberX, Time0830Z, 45, Target3, <<"c">>),
       Sample(Outgoing, NumberY, Time0830Z, 60, Target1, <<"a">>),
       Sample(Outgoing, NumberY, Time0830Z, 60, Target2, <<"b">>) >>

CrossLists ==
    UNION {{[i \in 1..k |-> CrossRecords[p[i]]] :
               p \in {q \in [1..k -> 1..5] :
                         \A i, j \in 1..k : q[i] = q[j] => i = j}} :
           k \in {4, 5}}

\* The k-th of the numbers 5550100200, 5550100201, ...
NumberK(k) ==
    <<"5", "5", "5", "0", "1", "0", "0", "2">>
        \o <<DigitChars[(k \div 10) + 1], DigitChars[(k % 10) + 1]>>

\* Ten or eleven records of as many numbers and, after them, one of these
\* numbers a second time: more numbers than most_frequent_numbers keeps.
LongLists ==
    {[i \in 1..(n + 1) |->
         Sample(Incoming, NumberK(IF i <= n THEN i ELSE d), Time0830Z, 60,
                <<>>, <<"a">>)] :
        n \in {10, 11}, d \in 1..10}

RecordLists == ShortLists \cup CrossLists \cup LongLists

(******************************** SpecReport ********************************)

\* Analytics over a list of records, in a run of the interpreter that
\* iterates over all_numbers in the order hash_order.
InitReport ==
    /\ call_records \in RecordLists
    /\ hash_order \in IterationOrders(all_numbers(call_records))
    /\ snapshot = Pending
    /\ wb = Pending
    /\ again = Pending
    /\ files = <<>>
    /\ NormalizeIdle
    /\ ParseIdle
    /\ IngestIdle
    /\ SessionIdle

\* analytics = Analytics(records)
Analyze ==
    /\ snapshot.exc = "<pending>"
    /\ snapshot' = Analytics(call_records, hash_order)
    /\ call_records' = analyzed_records(call_records)
    /\ UNCHANGED <<hash_order, wb, again, files, normalizeVars, parseVars,
                   ingestVars, sessionVars>>

\* Analytics(records) a second time, in the same run of the interpreter: the
\* set all_numbers is built by the same insertions and so is iterated in
\* the same order.
AnalyzeAgain ==
    /\ snapshot.exc # "<pending>"
    /\ again.exc = "<pending>"
    /\ again' = Analytics(call_records, hash_order)
    /\ call_records' = analyzed_records(call_records)
    /\ UNCHANGED <<hash_order, snapshot, wb, files, normalizeVars, parseVars,
                   ingestVars, sessionVars>>

\* ExcelExporter.export_data(records, analytics, output_path)
Export ==
    /\ snapshot.exc = ""
    /\ wb.exc = "<pending>"
    /\ wb' = export_data(call_records, snapshot.val)
    /\ UNCHANGED <<call_records, hash_order, snapshot, again, files,
                   normalizeVars, parseVars, ingestVars, sessionVars>>

NextReport == Analyze \/ AnalyzeAgain \/ Export

SpecReport == InitReport /\ [][NextReport]_vars

\* Analytics returned a snapshot.
Analyzed == snapshot.exc = ""

\* export_data saved a workbook.
Exported == wb.exc = ""

\* The rows of a worksheet of the saved workbook.
Sheet(title) ==
    wb.val[CHOOSE k \in 1..Len(wb.val) : wb.val[k].title = title].rows

(************************* SpecSession: the inputs **************************)

MaxRuns == 2

\* One result under a second target number.
OtherDocument ==
    [wellFormed |-> TRUE, targetValue |-> NumberLong,
     results |-> <<[GoodResult EXCEPT !.lengthOfCall = <<"0">>]>>]

SessionFiles ==
    (<<"a">> :> GoodDocument) @@ (<<"b">> :> OtherDocument)
        @@ (<<"e">> :> EmptyDocument) @@ (<<"n">> :> NoDirectionDocument)

\* The selections of the file dialog: one source of one target, two sources
\* of two targets, a source without records, and a source whose record has
\* no direction beside a good one.
SessionBatches ==
    { <<<<"a">>>>, <<<<"b">>>>, <<<<"a">>, <<"b">>>>, <<<<"e">>>>,
      <<<<"n">>, <<"a">>>> }

(******************************** SpecSession *******************************)

\* The application after construction, over a fixed file system.
InitSession ==
    /\ files = SessionFiles
    /\ session = constructed
    /\ runs = <<>>
    /\ after_queue = <<>>
    /\ exported = <<>>
    /\ NormalizeIdle
    /\ ParseIdle
    /\ IngestIdle
    /\ ReportIdle

\* _select_files or _select_file with a selection made: _process_files
\* starts a worker thread on the paths.
ProcessFiles ==
    /\ Len(runs) < MaxRuns
    /\ \E paths \in SessionBatches :
           runs' = Append(runs, [file_paths |-> paths, status |-> "running",
                                 outcome |-> NoOutcome, found |-> constructed])
    /\ UNCHANGED <<session, after_queue, exported, files, normalizeVars,
                   parseVars, ingestVars, reportVars>>

\* _process_files_thread of run i, from its loop to root.after(0, ...): the
\* worker works on its own lists, and what the session sees of it is the
\* callback it posts.
WorkerPosts(i) ==
    /\ runs[i].status = "running"
    /\ LET merged == process_all(files, runs[i].file_paths,
                                 [all_records |-> <<>>, processed_files |-> <<>>])
       IN  \E order \in IterationOrders(all_numbers(merged.all_records)) :
               runs' = [runs EXCEPT
                           ![i].status = "posted",
                           ![i].outcome = batch_outcome(merged.all_records,
                                                        merged.processed_files,
                                                        order)]
    /\ after_queue' = Append(after_queue, i)
    /\ UNCHANGED <<session, exported, files, normalizeVars, parseVars,
                   ingestVars, reportVars>>

\* The main loop runs the callback posted first.  found keeps the session
\* as the callback found it.
RunCallback ==
    /\ after_queue # <<>>
    /\ LET i == Head(after_queue)
           posted == runs[i].outcome
       IN  /\ session' =
                  IF posted.callback = "_on_processing_finished"
                  THEN _on_processing_finished(session, posted.records,
                                               posted.analytics)
                  ELSE _on_processing_error(session, posted.error_message)
           /\ runs' = [runs EXCEPT ![i].status = "delivered",
                                   ![i].found = session]
    /\ after_queue' = Tail(after_queue)
    /\ UNCHANGED <<exported, files, normalizeVars, parseVars, ingestVars,
                   reportVars>>

\* The Clear All button.
ClearAll ==
    /\ session' = _clear_all(session)
    /\ UNCHANGED <<runs, after_queue, exported, files, normalizeVars,
                   parseVars, ingestVars, reportVars>>

\* A value of the target selector is chosen: the combobox puts it in
\* target_var and raises <<ComboboxSelected>>.
TargetChanged ==
    /\ \E k \in 1..Len(session.target_values) :
           session' = _on_target_changed(
                          [session EXCEPT !.target_var = session.target_values[k]])
    /\ UNCHANGED <<runs, after_queue, exported, files, normalizeVars,
                   parseVars, ingestVars, reportVars>>

\* One of the two Export to Excel buttons is pressed, which takes it to be
\* enabled; the file dialog gives a path or is dismissed.
ExportToExcel ==
    /\ session.export_btn = "normal" \/ session.export_records_btn = "normal"
    /\ \E chosen \in BOOLEAN : exported' = _export_to_excel(session, chosen)
    /\ UNCHANGED <<session, runs, after_queue, files, normalizeVars,
                   parseVars, ingestVars, reportVars>>

NextSession ==
    \/ ProcessFiles
    \/ \E i \in 1..Len(runs) : WorkerPosts(i)
    \/ RunCallback
    \/ ClearAll
    \/ TargetChanged
    \/ ExportToExcel

SpecSession == InitSession /\ [][NextSession]_vars

(******************************* C1 *****************************************)

\* C1: whatever the input, _normalize_phone_number returns exactly 10
\* characters, each of them a decimal digit (a character of the class \d).
C1_TenDigits ==
    normalized_number # NotYet =>
        /\ Len(normalized_number) = 10
        /\ \A i \in 1..10 : IsDecimalDigit(normalized_number[i])

\* An input with more than 11 digits and a non-digit among them was normalised.
C1_Witness ==
    /\ normalized_number # NotYet
    /\ Len(digits_only(Str(number))) > 11
    /\ Len(Str(number)) > Len(digits_only(Str(number)))

(******************************* C2 *****************************************)

\* C2: with d the digits left after stripping, the result is d when d has 10
\* digits, d without its first digit when d has 11 digits and starts with
\* '1', the last 10 digits of d for every other length above 10, and d
\* left-padded with '0' to length 10 when d has fewer than 10 digits.
C2_NormalizeCases ==
    normalized_number # NotYet =>
        LET d == digits_only(Str(number))
            n == Len(d)
            out == normalized_number
        IN  /\ n = 10 => out = d
            /\ (n = 11 /\ d[1] = "1") => out = Tail(d)
            /\ (n > 10 /\ ~(n = 11 /\ d[1] = "1")) =>
                   /\ Len(out) = 10
                   /\ \A k \in 1..10 : out[k] = d[n - 10 + k]
            /\ n < 10 =>
                   /\ Len(out) = 10
                   /\ \A k \in 1..(10 - n) : out[k] = "0"
                   /\ \A k \in 1..n : out[10 - n + k] = d[k]

\* An 11-digit input that does not start with '1' was normalised.
C2_Witness ==
    /\ normalized_number # NotYet
    /\ Len(digits_only(Str(number))) = 11
    /\ digits_only(Str(number))[1] # "1"

(******************************* C3 *****************************************)

\* C3: stripping removes every character that is not an ASCII digit 0-9, so
\* the result consists only of ASCII digits.
C3_OnlyAsciiDigits ==
    normalized_number # NotYet =>
        \A i \in 1..Len(normalized_number) : normalized_number[i] \in AsciiDigits

(******************************* C4 *****************************************)

\* What C4 calls a bad element: a child is missing, or the lengthOfCall text
\* is not parseable as an integer (non-numeric text, or no text at all).
C4_BadElement(e) ==
    \/ Absent \in {e.messageDirection, e.remoteNumber, e.startTime, e.endTime,
                   e.lengthOfCall}
    \/ int(e.lengthOfCall).exc # ""

\* The records C4 expects: a bad element contributes nothing, every other
\* element is processed, in document order.
RECURSIVE C4_Expected(_, _)
C4_Expected(results, records) ==
    IF results = <<>> THEN records
    ELSE LET e == Head(results)
             r == process_result(e, target_number_of(document), file_path)
         IN  C4_Expected(Tail(results),
                         IF ~C4_BadElement(e) /\ r.exc = ""
                         THEN Append(records, r.val) ELSE records)

\* C4: a results element that lacks a child, or whose lengthOfCall text is
\* not parseable as an integer, contributes no record, and every other
\* results element of the document is still processed and returned, in
\* document order.
C4_BadElementsSkipped ==
    (Parsed /\ WellFormed) =>
        /\ parsed.exc = ""
        /\ parsed.val = C4_Expected(document.results, <<>>)

(******************************* C5 *****************************************)

\* C5: parse_file raises its document-level failure only when the file
\* cannot be read or parsed as well-formed XML.
C5_OnlyUnreadableFails ==
    (Parsed /\ parsed.exc # "") => ~WellFormed

(******************************* C6 *****************************************)

\* The datetime a timestamp text is read as, before its offset is dropped.
C6_Read(text) == fromisoformat(replace_Z(text)).val

C6_HasOffset(text) ==
    /\ text # Absent /\ text # None
    /\ fromisoformat(replace_Z(text)).exc = ""
    /\ Len(C6_Read(text).tzinfo) > 0

\* The instant a text with an offset denotes: <<minute, second>> of
\* universal time.
C6_Instant(text) ==
    LET dt == C6_Read(text)
    IN  <<(toordinal(dt) * 24 + dt.hour) * 60 + dt.minute - dt.tzinfo[1],
          dt.second>>

\* C6: two startTime texts that denote the same instant with different
\* offsets yield the same start_time, date, time and hour of day.
C6_SameInstantSameRecord ==
    (Parsed /\ parsed.exc = "" /\ WellFormed
        /\ Len(parsed.val) = Len(document.results)) =>
        \A i, j \in 1..Len(parsed.val) :
            LET ti == document.results[i].startTime
                tj == document.results[j].startTime
            IN  (C6_HasOffset(ti) /\ C6_HasOffset(tj)
                    /\ C6_Instant(ti) = C6_Instant(tj)) =>
                /\ parsed.val[i].start_time = parsed.val[j].start_time
                /\ parsed.val[i].date = parsed.val[j].date
                /\ parsed.val[i].time = parsed.val[j].time
                /\ parsed.val[i].start_time.hour = parsed.val[j].start_time.hour

(******************************* C9 *****************************************)

\* The text after the last '/' of path, said without basename: a suffix of
\* the path that holds no '/' and is the whole path or follows a '/'.
C9_IsBaseName(name, path) ==
    /\ Len(name) <= Len(path)
    /\ name = SubSeq(path, Len(path) - Len(name) + 1, Len(path))
    /\ \A i \in 1..Len(name) : name[i] # "/"
    /\ Len(name) < Len(path) => path[Len(path) - Len(name)] = "/"

\* C9: every record parse_file returns carries the base name of the path as
\* source_file; its target_number is "" exactly when the document has no
\* targetValue element or that element has no text, and is otherwise the
\* normalised target text, 10 digits long.
C9_Provenance ==
    (Parsed /\ parsed.exc = "") =>
        \A i \in 1..Len(parsed.val) :
            LET r == parsed.val[i] IN
            /\ C9_IsBaseName(r.source_file, file_path)
            /\ (r.target_number = <<>>) <=> (document.targetValue \in {Absent, None})
            /\ document.targetValue \notin {Absent, None} =>
                   /\ r.target_number = _normalize_phone_number(document.targetValue)
                   /\ Len(r.target_number) = 10
                   /\ \A k \in 1..10 : IsDecimalDigit(r.target_number[k])

\* A document with a target text, read from a path inside a directory, gave
\* at least one record.
C9_Witness ==
    /\ Parsed /\ parsed.exc = ""
    /\ Len(parsed.val) > 0
    /\ document.targetValue = TargetText
    /\ \E i \in 1..Len(file_path) : file_path[i] = "/"

(******************************* C7 *****************************************)

C7_Parses(path) == parse_file(files, path).exc = ""

\* The records of the sources of paths that parse, in the order of paths.
RECURSIVE C7_Merged(_)
C7_Merged(paths) ==
    IF paths = <<>> THEN <<>>
    ELSE (IF C7_Parses(Head(paths)) THEN parse_file(files, Head(paths)).val
          ELSE <<>>) \o C7_Merged(Tail(paths))

\* C7: a source that fails at the document level does not abort the batch:
\* every source is attempted, the merged records are exactly those of the
\* sources that parsed, processed_files lists exactly those sources, and
\* these are the lists the success callback is posted with.
C7_PartialFailure ==
    LET attempted == SubSeq(file_paths, 1, next_file - 1) IN
    /\ all_records = C7_Merged(attempted)
    /\ processed_files = SelectSeq(attempted, C7_Parses)
    /\ pc = "done" =>
           /\ next_file = Len(file_paths) + 1
           /\ outcome.callback = "_on_processing_finished" =>
                  /\ outcome.records = all_records
                  /\ outcome.file_paths = processed_files

\* Three sources of which the second is corrupt and the others gave records:
\* the success callback was posted.
C7_Witness ==
    /\ pc = "done"
    /\ Len(file_paths) = 3
    /\ ~C7_Parses(file_paths[2])
    /\ C7_Parses(file_paths[1]) /\ parse_file(files, file_paths[1]).val # <<>>
    /\ C7_Parses(file_paths[3]) /\ parse_file(files, file_paths[3]).val # <<>>
    /\ outcome.callback = "_on_processing_finished"
    /\ outcome.file_paths = <<file_paths[1], file_paths[3]>>

(******************************* C8 *****************************************)

\* C8: when the merged record set is empty the run ends with the error
\* 'No valid records found in any files', and the success callback never
\* carries an empty record list.
C8_EmptyIsError ==
    pc = "done" =>
        /\ all_records = <<>> =>
               /\ outcome.callback = "_on_processing_error"
               /\ outcome.error_message = "No valid records found in any files"
        /\ outcome.callback = "_on_processing_finished" => outcome.records # <<>>

\* A batch of one source that failed and one that parsed without records
\* has ended.
C8_Witness ==
    /\ pc = "done"
    /\ all_records = <<>>
    /\ \E i \in 1..Len(file_paths) : ~C7_Parses(file_paths[i])
    /\ \E i \in 1..Len(file_paths) : C7_Parses(file_paths[i])

(******************************* C10 ****************************************)

\* C10 as claimed: the records of a single-file batch have an empty
\* source_file.
C10_SingleFileEmptySource ==
    (pc = "done" /\ Len(file_paths) = 1) =>
        \A i \in 1..Len(all_records) : all_records[i].source_file = <<>>

\* C10 as amended: the records of a single-file batch carry the non-empty
\* base name of that file, and in a batch of any size every record carries
\* the non-empty base name of one of the batch's paths.
C10_SourceFileAlwaysStamped ==
    \A i \in 1..Len(all_records) :
        /\ all_records[i].source_file # <<>>
        /\ \E k \in 1..Len(file_paths) :
               C9_IsBaseName(all_records[i].source_file, file_paths[k])
        /\ Len(file_paths) = 1 =>
               C9_IsBaseName(all_records[i].source_file, file_paths[1])

\* A single-file batch has ended with records.
C10_Witness ==
    /\ pc = "done"
    /\ Len(file_paths) = 1
    /\ all_records # <<>>


(******************************* C11 ****************************************)

\* The records of call_records that count as incoming: direction equal to
\* 'incoming' ignoring case.
C11_Incoming ==
    {i \in 1..Len(call_records) :
        /\ call_records[i].direction # None
        /\ lower(call_records[i].direction) = Incoming}

\* C11: for every record set, incoming_calls is the number of records whose
\* direction is 'incoming' ignoring case, outgoing_calls the number of all
\* the other records whatever their direction, and the two add up to
\* total_calls, the number of records.
C11_DirectionCounts ==
    snapshot.exc # "<pending>" =>
        /\ snapshot.exc = ""
        /\ snapshot.val.incoming_calls = Cardinality(C11_Incoming)
        /\ snapshot.val.outgoing_calls
               = Cardinality((1..Len(call_records)) \ C11_Incoming)
        /\ snapshot.val.total_calls = Len(call_records)
        /\ snapshot.val.incoming_calls + snapshot.val.outgoing_calls
               = snapshot.val.total_calls

(******************************* C12 ****************************************)

\* The normalized numbers of call_records, in sequence order.
C12_Numbers == [i \in 1..Len(call_records) |-> call_records[i].normalized_number]

C12_Count(n) == Cardinality({i \in 1..Len(C12_Numbers) : C12_Numbers[i] = n})

\* Where a number is first encountered.
C12_First(n) ==
    CHOOSE i \in 1..Len(C12_Numbers) :
        C12_Numbers[i] = n /\ \A j \in 1..(i - 1) : C12_Numbers[j] # n

\* Number a ranks before number b.
C12_Before(a, b) ==
    \/ C12_Count(a) > C12_Count(b)
    \/ C12_Count(a) = C12_Count(b) /\ C12_First(a) < C12_First(b)

\* C12: most_frequent_numbers lists (number, count) pairs, count being the
\* number of records with that normalized number, by non-increasing count,
\* numbers of equal count in the order in which they were first
\* encountered; it holds each number once and is the first 10 entries of
\* that ranking at most.
C12_MostFrequent ==
    Analyzed =>
        LET top == snapshot.val.most_frequent_numbers
            distinct == {C12_Numbers[i] : i \in 1..Len(C12_Numbers)}
            kept == {top[k][1] : k \in 1..Len(top)}
        IN  /\ Len(top) = IF Cardinality(distinct) <= 10
                          THEN Cardinality(distinct) ELSE 10
            /\ kept \subseteq distinct
            /\ Cardinality(kept) = Len(top)
            /\ \A k \in 1..Len(top) : top[k][2] = C12_Count(top[k][1])
            /\ \A k \in 1..(Len(top) - 1) : C12_Before(top[k][1], top[k + 1][1])
            /\ \A n \in distinct \ kept : \A k \in 1..Len(top) :
                  C12_Before(top[k][1], n)

\* Eleven numbers, the tenth called twice: it is ranked first, ten entries
\* are kept, and the numbers called once follow in the order of the
\* records.
C12_Witness ==
    /\ Analyzed
    /\ Cardinality({C12_Numbers[i] : i \in 1..Len(C12_Numbers)}) = 11
    /\ Len(snapshot.val.most_frequent_numbers) = 10
    /\ snapshot.val.most_frequent_numbers[1] = <<NumberK(10), 2>>
    /\ snapshot.val.most_frequent_numbers[2] = <<NumberK(1), 1>>
    /\ snapshot.val.most_frequent_numbers[10] = <<NumberK(9), 1>>

(******************************* C13 ****************************************)

\* Record i is the first of call_records with the greatest length.
C13_FirstLongest(i) ==
    /\ \A j \in 1..Len(call_records) :
          call_records[j].length_of_call <= call_records[i].length_of_call
    /\ \A j \in 1..(i - 1) :
          call_records[j].length_of_call < call_records[i].length_of_call

\* Record i is the first of call_records with the least positive length.
C13_FirstShortest(i) ==
    /\ call_records[i].length_of_call > 0
    /\ \A j \in 1..Len(call_records) :
          call_records[j].length_of_call > 0
              => call_records[j].length_of_call
                     >= call_records[i].length_of_call
    /\ \A j \in 1..(i - 1) :
          call_records[j].length_of_call > 0
              => call_records[j].length_of_call
                     > call_records[i].length_of_call

\* C13: for a non-empty record set, longest_call is the first record of
\* greatest length_of_call; shortest_call is the first record of least
\* length among those of positive length, and None when no record has a
\* positive length; a record of length zero is never the shortest.
C13_LongestShortest ==
    Analyzed /\ call_records # <<>> =>
        /\ \E i \in 1..Len(call_records) :
              /\ C13_FirstLongest(i)
              /\ snapshot.val.longest_call = <<call_records[i]>>
        /\ IF \E i \in 1..Len(call_records) : call_records[i].length_of_call > 0
           THEN \E i \in 1..Len(call_records) :
                   /\ C13_FirstShortest(i)
                   /\ snapshot.val.shortest_call = <<call_records[i]>>
           ELSE snapshot.val.shortest_call = <<>>
        /\ \A k \in 1..Len(snapshot.val.shortest_call) :
              snapshot.val.shortest_call[k].length_of_call # 0

\* A record of length zero before records of 45 and 60 seconds: the
\* shortest is the one of 45 seconds.
C13_Witness ==
    /\ Analyzed
    /\ Len(call_records) = 3
    /\ call_records[1].length_of_call = 0
    /\ call_records[2].length_of_call = 60
    /\ call_records[3].length_of_call = 45
    /\ snapshot.val.shortest_call = <<call_records[3]>>
    /\ snapshot.val.longest_call = <<call_records[2]>>

(******************************* C14 ****************************************)

\* The distinct target numbers of call_records.
C14_Targets ==
    {call_records[i].target_number : i \in 1..Len(call_records)} \ {<<>>}

\* The targets under which the number n occurs.
C14_TargetsOf(n) ==
    {call_records[i].target_number :
        i \in {j \in 1..Len(call_records) :
                  /\ call_records[j].normalized_number = n
                  /\ call_records[j].target_number # <<>>}}

\* C14: with two or more distinct target numbers, common_contacts has one
\* entry for each normalized number found under two or more targets and no
\* other entry; an entry lists all the targets of its number, once each,
\* its count is the length of that list, and the entries are by
\* non-increasing count.
C14_CommonContacts ==
    Analyzed /\ Cardinality(C14_Targets) >= 2 =>
        LET contacts == snapshot.val.common_contacts
        IN  /\ "common_contacts" \notin snapshot.val.unset
            /\ {contacts[k].number : k \in 1..Len(contacts)}
                   = {call_records[i].normalized_number :
                         i \in {j \in 1..Len(call_records) :
                                   Cardinality(C14_TargetsOf(
                                       call_records[j].normalized_number)) >= 2}}
            /\ \A k, l \in 1..Len(contacts) :
                  contacts[k].number = contacts[l].number => k = l
            /\ \A k \in 1..Len(contacts) :
                  /\ {contacts[k].target_numbers[t] :
                         t \in 1..Len(contacts[k].target_numbers)}
                         = C14_TargetsOf(contacts[k].number)
                  /\ Len(contacts[k].target_numbers)
                         = Cardinality(C14_TargetsOf(contacts[k].number))
                  /\ contacts[k].count = Len(contacts[k].target_numbers)
                  /\ contacts[k].count >= 2
            /\ \A k \in 1..(Len(contacts) - 1) :
                  contacts[k].count >= contacts[k + 1].count

\* NumberX under three targets and NumberY under two, in a run that visits
\* NumberY first: NumberX is listed first all the same.
C14_Witness ==
    /\ Analyzed
    /\ hash_order = <<NumberY, NumberX>>
    /\ Len(snapshot.val.common_contacts) = 2
    /\ snapshot.val.common_contacts[1].number = NumberX
    /\ snapshot.val.common_contacts[1].count = 3
    /\ snapshot.val.common_contacts[2].number = NumberY
    /\ snapshot.val.common_contacts[2].target_numbers = <<Target1, Target2>>

(******************************* C15 ****************************************)

\* C15: the order of common_contacts is determined by the record set:
\* entries of equal count are in the lexicographic order of their numbers,
\* and every order of iteration over the intermediate set of numbers gives
\* the same list.
C15_OrderDetermined ==
    Analyzed /\ "common_contacts" \notin snapshot.val.unset =>
        LET contacts == snapshot.val.common_contacts
        IN  /\ \A k \in 1..(Len(contacts) - 1) :
                  contacts[k].count = contacts[k + 1].count
                      => text_less(contacts[k].number, contacts[k + 1].number)
            /\ \A order \in IterationOrders(all_numbers(call_records)) :
                  _find_common_contacts(call_records, order).list = contacts


(******************************* C16 ****************************************)

\* C16: for every non-empty record set, whatever the number of its distinct
\* target numbers, export_data completes, and the Common Contacts sheet is
\* the header row followed by a row for each common contact, or the single
\* marker row when there is no common contact.
C16_ExportCompletes ==
    wb.exc # "<pending>" /\ call_records # <<>> =>
        /\ Exported
        /\ LET rows == Sheet("Common Contacts")
               contacts == snapshot.val.common_contacts
           IN  IF contacts = <<>>
               THEN rows = <<<<str_cell(NoCommonContacts)>>>>
               ELSE /\ Len(rows) = Len(contacts) + 1
                    /\ rows[1] = text_row(contacts_headers)
                    /\ \A k \in 1..Len(contacts) :
                          rows[k + 1][1] = str_cell(contacts[k].number)

(******************************* C17 ****************************************)

\* The text x as the workbook holds it when x starts with =.
C17_Escaped(x) == IF x # <<>> /\ Head(x) = "=" THEN <<"'">> \o x ELSE x

\* C17: in the workbook export_data saves, no cell of any sheet holds a
\* string that begins with '='; a string that began with '=', from record
\* data (direction, remote number, source file) or from generated text,
\* has the escape marker in front.
C17_NoFormulaCell ==
    Exported =>
        /\ \A k \in 1..Len(wb.val) :
              \A i \in 1..Len(wb.val[k].rows) :
                 \A j \in 1..Len(wb.val[k].rows[i]) :
                    LET cell == wb.val[k].rows[i][j]
                    IN  cell.t = "str" /\ cell.v # <<>> => cell.v[1] # "="
        /\ \A i \in 1..Len(call_records) :
              LET row == Sheet("Call Records")[i + 1]
              IN  /\ row[1].v = C17_Escaped(call_records[i].direction)
                  /\ row[3].v = C17_Escaped(call_records[i].remote_number)
                  /\ row[10].v = C17_Escaped(call_records[i].source_file)
        /\ Sheet("Summary Report")[1][1].v = <<"'">> \o BannerAnalysis

\* A workbook saved for records among which a direction, a remote number
\* and a source file begin with '='.
C17_Witness ==
    /\ Exported
    /\ \E i \in 1..Len(call_records) : call_records[i].direction = FormulaText
    /\ \E i \in 1..Len(call_records) :
          /\ call_records[i].remote_number = FormulaNumber
          /\ call_records[i].source_file = FormulaName

(******************************* C18 ****************************************)

\* The row of the Summary sheet that introduces the days; the most
\* frequent numbers are introduced by row 10.
C18_DayRow == 12 + Len(snapshot.val.most_frequent_numbers)

\* C18 as claimed: each section of the Summary sheet is introduced by a
\* cell whose value is literally the banner '=== SECTION NAME ===', and
\* the figures are those of the analytics snapshot.
C18_LiteralBanners ==
    Exported =>
        LET rows == Sheet("Summary Report")
        IN  /\ rows[1][1].v = BannerAnalysis
            /\ rows[10][1].v = BannerMostFrequent
            /\ rows[C18_DayRow][1].v = BannerCallsByDay
            /\ rows[3][1].v = LineTotalCalls \o str_int(snapshot.val.total_calls)

\* The days of the records in increasing order, each with its number of
\* records.
C18_Days ==
    LET days == {call_records[i].date : i \in 1..Len(call_records)}
    IN  [k \in 1..Cardinality(days) |->
            LET day == CHOOSE d \in days :
                           Cardinality({e \in days : text_less(e, d)}) = k - 1
            IN  <<day, Cardinality({i \in 1..Len(call_records) :
                                       call_records[i].date = day})>>]

\* C18 as amended: each section of the Summary sheet is introduced by a
\* cell holding the banner behind the escape marker ('=== SECTION NAME
\* ===), and the figures that follow are those of the analytics snapshot:
\* the counts, the durations to two decimals, the most frequent numbers in
\* their order and the days in increasing order.
C18_EscapedBanners ==
    Exported =>
        LET rows == Sheet("Summary Report")
            a == snapshot.val
            top == a.most_frequent_numbers
        IN  /\ Len(rows) = C18_DayRow + Len(C18_Days)
            /\ \A i \in 1..Len(rows) : Len(rows[i]) = 1 /\ rows[i][1].t = "str"
            /\ rows[1][1].v = <<"'">> \o BannerAnalysis
            /\ rows[10][1].v = <<"'">> \o BannerMostFrequent
            /\ rows[C18_DayRow][1].v = <<"'">> \o BannerCallsByDay
            /\ rows[3][1].v = LineTotalCalls \o str_int(a.total_calls)
            /\ rows[4][1].v = LineIncomingCalls \o str_int(a.incoming_calls)
            /\ rows[5][1].v = LineOutgoingCalls \o str_int(a.outgoing_calls)
            /\ rows[6][1].v = LineUniquePhoneNumbers \o str_int(a.unique_numbers)
            /\ rows[7][1].v = LineTotalDuration
                                  \o format_2f(a.total_duration_minutes)
                                  \o TextMinutes
            /\ rows[8][1].v = LineAverageCallDuration
                                  \o format_2f(a.average_call_duration)
                                  \o TextMinutes
            /\ \A i \in 1..Len(top) :
                  rows[10 + i][1].v
                      = str_int(i) \o <<".", " ">> \o top[i][1] \o <<" ", "(">>
                            \o str_int(top[i][2]) \o TextCalls \o <<")">>
            /\ \A i \in 1..Len(C18_Days) :
                  rows[C18_DayRow + i][1].v
                      = C18_Days[i][1] \o <<":", " ">>
                            \o str_int(C18_Days[i][2]) \o TextCalls

\* A report of three records of two numbers and two days, the later day
\* first, with two incoming calls and one outgoing.
C18_Witness ==
    /\ Exported
    /\ Len(snapshot.val.most_frequent_numbers) = 2
    /\ Len(C18_Days) = 2
    /\ snapshot.val.calls_by_day[1][1] = C18_Days[2][1]
    /\ snapshot.val.incoming_calls = 2
    /\ snapshot.val.outgoing_calls = 1
    /\ Sheet("Summary Report")[7][1].v
           = LineTotalDuration \o <<"1", ".", "7", "5">> \o TextMinutes

(******************************* C19 ****************************************)

\* The ten values of a record under the ten headers.
C19_Fields(r) ==
    << text_cell(r.direction), str_cell(r.target_number),
       text_cell(r.remote_number), str_cell(r.normalized_number),
       str_cell(r.date_time),
       str_cell(strftime_date(r.end_time) \o <<" ">> \o strftime_time(r.end_time)),
       int_cell(r.length_of_call), float_cell(r.duration_minutes),
       str_cell(DayText(r.day_of_week)), str_cell(r.source_file) >>

\* The first row holds the ten headers, no other row does, and a row
\* follows for each record, in sequence order.
C19_Layout ==
    LET rows == Sheet("Call Records")
    IN  /\ Len(rows) = Len(call_records) + 1
        /\ [j \in 1..10 |-> rows[1][j].v] = records_headers
        /\ \A i \in 2..Len(rows) : rows[i] # rows[1]

\* C19 as claimed: the Records sheet has the ten headers as its first row,
\* once, and then one row for each record in sequence order, each column
\* holding the record field its header names.
C19_RecordsSheet ==
    Exported =>
        /\ C19_Layout
        /\ \A i \in 1..Len(call_records) :
              Sheet("Call Records")[i + 1] = C19_Fields(call_records[i])

\* C19 as amended: the Records sheet has the ten headers as its first row,
\* once, and then one row for each record in sequence order, each column
\* holding the record field its header names, behind the escape marker
\* when the field is a string that begins with '='.
C19_RecordsSheetEscaped ==
    Exported =>
        /\ C19_Layout
        /\ \A i \in 1..Len(call_records) :
              \A j \in 1..10 :
                 LET cell == Sheet("Call Records")[i + 1][j]
                     field == C19_Fields(call_records[i])[j]
                 IN  IF field.t = "str"
                     THEN cell = str_cell(C17_Escaped(field.v))
                     ELSE cell = field

\* Three different records exported, the second with a direction that
\* begins with '='.
C19_Witness ==
    /\ Exported
    /\ Len(call_records) = 3
    /\ call_records[1] # call_records[2]
    /\ call_records[2] # call_records[3]
    /\ call_records[2].direction = FormulaText
    /\ Sheet("Call Records")[3][1].v = <<"'", "=", "1", "+", "1">>
    /\ Sheet("Call Records")[3][7].v = <<45>>

(******************************* C20 ****************************************)

\* What reading row i + 1 of the Records sheet gives back.
C20_ReadBack(i) ==
    LET row == Sheet("Call Records")[i + 1]
    IN  [normalized_number |-> row[4], direction |-> row[1],
         length_of_call |-> row[7]]

\* C20: reading back the Records sheet gives, row by row, the normalized
\* number, the direction and the duration in seconds of the exported
\* records, whatever the direction and number texts.
C20_RoundTrip ==
    Exported =>
        \A i \in 1..Len(call_records) :
            C20_ReadBack(i)
                = [normalized_number |-> str_cell(call_records[i].normalized_number),
                   direction |-> text_cell(call_records[i].direction),
                   length_of_call |-> int_cell(call_records[i].length_of_call)]

(******************************* C21 ****************************************)

C22_NonNegativeLength ==
    (Parsed /\ parsed.exc = "") =>
        \A i \in 1..Len(parsed.val) : parsed.val[i].length_of_call >= 0

(******************************* C26 ****************************************)

\* C26: for the records the sources of a batch parse to, Analytics raises
\* no exception and assigns every attribute of the snapshot, so a batch
\* with records ends with the success callback.
C26_AnalyticsSucceeds ==
    (pc = "done" /\ all_records # <<>>) =>
        /\ outcome.callback = "_on_processing_finished"
        /\ outcome.analytics.unset = {}

(******************************* C30 ****************************************)

\* The records of the results elements of a document that give a record, in
\* the order of the elements.
C30_InDocumentOrder(path) ==
    LET doc == files[path]
        made == [k \in 1..Len(doc.results) |->
                    process_result(doc.results[k], target_number_of(doc), path)]
        kept == SelectSeq(made, LAMBDA r : r.exc = "")
    IN  [k \in 1..Len(kept) |-> kept[k].val]

\* The records source i of the batch contributes: those of its document, or
\* none when parse_file raised.
C30_Block(i) ==
    IF parse_file(files, file_paths[i]).exc = ""
    THEN C30_InDocumentOrder(file_paths[i])
    ELSE <<>>

\* The number of records the sources before source i contribute.
RECURSIVE C30_Offset(_)
C30_Offset(i) ==
    IF i = 1 THEN 0 ELSE C30_Offset(i - 1) + Len(C30_Block(i - 1))

\* C30: the merged records are the concatenation, in the order of the
\* paths given, of the records of each source that parsed, in document
\* order: the k-th record of source i stands at position k after the
\* records of the sources before it, and the success callback is posted
\* with this sequence.
C30_InputOrder ==
    /\ Len(all_records) = C30_Offset(next_file)
    /\ \A i \in 1..(next_file - 1) :
           \A k \in 1..Len(C30_Block(i)) :
               all_records[C30_Offset(i) + k] = C30_Block(i)[k]
    /\ outcome.callback = "_on_processing_finished" =>
           outcome.records = all_records

\* Two sources with different records, both parsed, the first given being
\* the one whose records come first.
C30_Witness ==
    /\ pc = "done"
    /\ Len(file_paths) = 2
    /\ files[file_paths[1]] = MixedDocument
    /\ files[file_paths[2]] = GoodDocument
    /\ Len(all_records) = 3
    /\ all_records[1].source_file = basename(file_paths[1])
    /\ all_records[2].source_file = basename(file_paths[2])
    /\ outcome.callback = "_on_processing_finished"

(******************************* C23 ****************************************)

\* The worker has posted a callback: the success callback with the merged
\* records and their analytics, or the error callback with a message.
C23_Delivered ==
    /\ pc = "done"
    /\ \/ /\ outcome.callback = "_on_processing_finished"
          /\ outcome.records = all_records
          /\ \E order \in IterationOrders(all_numbers(all_records)) :
                 Analytics(all_records, order) = Return(outcome.analytics)
       \/ /\ outcome.callback = "_on_processing_error"
          /\ outcome.error_message # ""

\* C23: every run of the worker comes to post a callback, whatever the
\* sources hold, and posts exactly one: nothing is posted while the loop
\* runs, and once a callback is posted it is the outcome for good.
C23_OneOutcome ==
    /\ <>[]C23_Delivered
    /\ [](pc = "loop" => outcome = NoOutcome)
    /\ [][outcome' # outcome => outcome = NoOutcome /\ pc' = "done"]_vars

\* A run over an unreadable source and a source whose record makes
\* Analytics raise: the exception was caught and the error callback posted.
C23_Witness ==
    /\ pc = "done"
    /\ Len(file_paths) = 2
    /\ ~files[file_paths[1]].wellFormed
    /\ all_records # <<>>
    /\ outcome.callback = "_on_processing_error"

(******************************* C24 ****************************************)

\* The callback of run i has run and was the success callback.
C24_Loaded(i) ==
    /\ runs[i].status = "delivered"
    /\ runs[i].outcome.callback = "_on_processing_finished"

\* C24: under every interleaving of runs, Clear All and target changes,
\* the session's all_records is empty or is the merged records of one run,
\* and the analytics, when there are any, are those of that run.
C24_OneRun ==
    \/ session.all_records = <<>> /\ session.analytics = <<>>
    \/ \E i \in 1..Len(runs) :
           /\ C24_Loaded(i)
           /\ session.all_records = runs[i].outcome.records
           /\ session.analytics = <<runs[i].outcome.analytics>>

\* Two overlapping runs of different records: the callback of the first
\* ran after that of the second, and the session holds the records of the
\* first alone.
C24_Witness ==
    /\ Len(runs) = 2
    /\ C24_Loaded(1) /\ C24_Loaded(2)
    /\ runs[1].outcome.records # runs[2].outcome.records
    /\ runs[1].found.all_records = runs[2].outcome.records
    /\ session.all_records = runs[1].outcome.records
    /\ session.analytics = <<runs[1].outcome.analytics>>

(******************************* C25 ****************************************)

\* C25: the analytics _export_to_excel passes to the exporter are the
\* snapshot of the records it passes, which are all the records loaded,
\* whatever target is selected; without records it calls no exporter.
C25_ExportConsistent ==
    /\ [](exported # <<>> =>
             /\ exported[1].records # <<>>
             /\ \E order \in IterationOrders(all_numbers(exported[1].records)) :
                    Analytics(exported[1].records, order)
                        = Return(exported[1].analytics))
    /\ [][exported' # exported =>
              /\ session.all_records # <<>>
              /\ exported' # <<>> => exported'[1].records = session.all_records]_vars

\* A report was written while a target was selected that not all records
\* belong to.
C25_Witness ==
    /\ exported # <<>>
    /\ exported[1].saved
    /\ exported[1].records = session.all_records
    /\ session.current_target_number # None
    /\ session.filtered_records # session.all_records

(******************************* C27 ****************************************)

\* C27: filtered_records is all_records when no target is selected, and
\* otherwise the records of all_records under the selected target.
C27_FilterConsistent ==
    session.filtered_records =
        IF session.current_target_number = None THEN session.all_records
        ELSE SelectSeq(session.all_records,
                       LAMBDA r : r.target_number = session.current_target_number)

(******************************* C28 ****************************************)

\* C28: once the callbacks of all runs have run, the session holds the
\* records and the analytics of the run started last (when it succeeded and
\* the session was not cleared since).
C28_LastStartedWins ==
    LET n == Len(runs)
    IN  (/\ n >= 2
         /\ \A i \in 1..n : runs[i].status = "delivered"
         /\ runs[n].outcome.callback = "_on_processing_finished"
         /\ session.all_records # <<>>) =>
            /\ session.all_records = runs[n].outcome.records
            /\ session.analytics = <<runs[n].outcome.analytics>>

(******************************* C29 ****************************************)

\* C29: the error callback leaves the session as it was: all_records,
\* filtered_records, analytics, current_target_number, the target selector
\* and the state of the export and copy buttons.
C29_ErrorLeavesSession ==
    [][(/\ after_queue # <<>>
        /\ after_queue' = Tail(after_queue)
        /\ runs[Head(after_queue)].outcome.callback = "_on_processing_error")
          => session' = session]_vars

\* A second run ended with the error callback, which found a session with
\* records, a selected target and enabled buttons, and left it so.
C29_Witness ==
    /\ Len(runs) = 2
    /\ runs[2].status = "delivered"
    /\ runs[2].outcome.callback = "_on_processing_error"
    /\ runs[2].found.all_records # <<>>
    /\ runs[2].found.current_target_number # None
    /\ runs[2].found.export_btn = "normal"
    /\ session = runs[2].found

=============================================================================
